---- MODULE Spec2Model ----
(***************************************************************************)
(* Model of the oracle-lens query engine (src/src/services/search.ts):     *)
(* tokenizer, recursive-descent parser, field resolver, condition          *)
(* compiler, and the two search entry points evaluated against the         *)
(* oracle_cards / default_cards / inventory tables.                        *)
(*                                                                         *)
(* A JavaScript string is a sequence of one-character strings.  A nullable *)
(* column or value is <<>> (NULL) or <<v>>.  SQL conditions are evaluated  *)
(* in three-valued logic ("T", "F", "N").                                  *)
(***************************************************************************)
EXTENDS Integers, Sequences, FiniteSets, TLC

\* ------------------------------------------------------------------------
\* Characters
\* ------------------------------------------------------------------------

\* printable ASCII in code-unit order, 0x20 .. 0x7E (0x60 is written "GRAVE")
Ascii ==
  <<" ", "!", "\"", "#", "$", "%", "&", "'", "(", ")", "*", "+", ",", "-", ".", "/", "0", "1", "2", "3", "4", "5", "6", "7", "8", "9", ":", ";", "<", "=", ">", "?", "@", "A", "B", "C", "D", "E", "F", "G", "H", "I", "J", "K", "L", "M", "N", "O", "P", "Q", "R", "S", "T", "U", "V", "W", "X", "Y", "Z", "[", "\\", "]", "^", "_", "GRAVE", "a", "b", "c", "d", "e", "f", "g", "h", "i", "j", "k", "l", "m", "n", "o", "p", "q", "r", "s", "t", "u", "v", "w", "x", "y", "z", "{", "|", "}", "~">>

Range(s) == {s[i] : i \in 1..Len(s)}

CharCode == [c \in Range(Ascii) |-> 31 + (CHOOSE i \in 1..Len(Ascii) : Ascii[i] = c)]

FromCharCode(n) == Ascii[n - 31]

IsUpper(c) == CharCode[c] >= 65 /\ CharCode[c] <= 90
IsLower(c) == CharCode[c] >= 97 /\ CharCode[c] <= 122
\* [a-z] under the i flag
IsLetter(c) == IsUpper(c) \/ IsLower(c)
IsDigit(c) == CharCode[c] >= 48 /\ CharCode[c] <= 57
\* \s restricted to the characters of Ascii
IsSpace(c) == c = " "
\* [<>=!]
IsOpChar(c) == c \in {"<", ">", "=", "!"}
\* [a-z0-9*] under the i flag
IsValueChar(c) == IsLetter(c) \/ IsDigit(c) \/ c = "*"
\* \w
IsWordChar(c) == IsLetter(c) \/ IsDigit(c) \/ c = "_"

LowerChar(c) == IF IsUpper(c) THEN FromCharCode(CharCode[c] + 32) ELSE c
UpperChar(c) == IF IsLower(c) THEN FromCharCode(CharCode[c] - 32) ELSE c
toLowerCase(s) == [i \in 1..Len(s) |-> LowerChar(s[i])]
toUpperCase(s) == [i \in 1..Len(s) |-> UpperChar(s[i])]

\* String.prototype.trim
RECURSIVE trimStart(_)
trimStart(s) == IF s # <<>> /\ IsSpace(s[1]) THEN trimStart(Tail(s)) ELSE s
RECURSIVE trimEnd(_)
trimEnd(s) == IF s # <<>> /\ IsSpace(s[Len(s)]) THEN trimEnd(SubSeq(s, 1, Len(s) - 1)) ELSE s
trim(s) == trimEnd(trimStart(s))

\* lookup in an association list <<key, value>>; <<>> when the key is absent
Lookup(table, key) ==
  IF \E i \in 1..Len(table) : table[i][1] = key
  THEN <<table[CHOOSE i \in 1..Len(table) : table[i][1] = key][2]>>
  ELSE <<>>

\* ------------------------------------------------------------------------
\* Color vocabulary
\* ------------------------------------------------------------------------

COLOR_MAP ==
  << <<<<"w", "h", "i", "t", "e">>, "W">>,
     <<<<"b", "l", "u", "e">>, "U">>,
     <<<<"b", "l", "a", "c", "k">>, "B">>,
     <<<<"r", "e", "d">>, "R">>,
     <<<<"g", "r", "e", "e", "n">>, "G">>,
     <<<<"w">>, "W">>,
     <<<<"u">>, "U">>,
     <<<<"b">>, "B">>,
     <<<<"r">>, "R">>,
     <<<<"g">>, "G">>,
     <<<<"c", "o", "l", "o", "r", "l", "e", "s", "s">>, "C">>,
     <<<<"c">>, "C">>,
     <<<<"m", "u", "l", "t", "i", "c", "o", "l", "o", "r">>, "M">>,
     <<<<"m">>, "M">>>>

COLOR_COMBINATION_MAP ==
  <<<<<<"a", "z", "o", "r", "i", "u", "s">>, <<"W", "U">>>>,
    <<<<"d", "i", "m", "i", "r">>, <<"U", "B">>>>,
    <<<<"r", "a", "k", "d", "o", "s">>, <<"B", "R">>>>,
    <<<<"g", "r", "u", "u", "l">>, <<"R", "G">>>>,
    <<<<"s", "e", "l", "e", "s", "n", "y", "a">>, <<"G", "W">>>>,
    <<<<"o", "r", "z", "h", "o", "v">>, <<"W", "B">>>>,
    <<<<"i", "z", "z", "e", "t">>, <<"U", "R">>>>,
    <<<<"g", "o", "l", "g", "a", "r", "i">>, <<"B", "G">>>>,
    <<<<"b", "o", "r", "o", "s">>, <<"R", "W">>>>,
    <<<<"s", "i", "m", "i", "c">>, <<"G", "U">>>>,
    <<<<"b", "a", "n", "t">>, <<"G", "W", "U">>>>,
    <<<<"e", "s", "p", "e", "r">>, <<"W", "U", "B">>>>,
    <<<<"g", "r", "i", "x", "i", "s">>, <<"U", "B", "R">>>>,
    <<<<"j", "u", "n", "d">>, <<"B", "R", "G">>>>,
    <<<<"n", "a", "y", "a">>, <<"R", "G", "W">>>>,
    <<<<"a", "b", "z", "a", "n">>, <<"W", "B", "G">>>>,
    <<<<"j", "e", "s", "k", "a", "i">>, <<"U", "R", "W">>>>,
    <<<<"s", "u", "l", "t", "a", "i">>, <<"B", "G", "U">>>>,
    <<<<"m", "a", "r", "d", "u">>, <<"R", "W", "B">>>>,
    <<<<"t", "e", "m", "u", "r">>, <<"G", "U", "R">>>>,
    <<<<"c", "h", "a", "o", "s">>, <<"R", "G", "W", "U">>>>,
    <<<<"a", "g", "g", "r", "e", "s", "s", "i", "o", "n">>, <<"R", "G", "W", "B">>>>,
    <<<<"a", "l", "t", "r", "u", "i", "s", "m">>, <<"G", "W", "U", "B">>>>,
    <<<<"g", "r", "o", "w", "t", "h">>, <<"R", "W", "U", "B">>>>,
    <<<<"a", "r", "t", "i", "f", "i", "c", "e">>, <<"R", "G", "U", "B">>>>,
    <<<<"q", "u", "a", "n", "d", "r", "i", "x">>, <<"G", "U">>>>,
    <<<<"s", "i", "l", "v", "e", "r", "q", "u", "i", "l", "l">>, <<"W", "B">>>>,
    <<<<"w", "i", "t", "h", "e", "r", "b", "l", "o", "o", "m">>, <<"B", "G">>>>,
    <<<<"p", "r", "i", "s", "m", "a", "r", "i">>, <<"U", "R">>>>,
    <<<<"l", "o", "r", "e", "h", "o", "l", "d">>, <<"R", "W">>>>>>

\* Array.prototype.sort on one-character strings: insertion by code unit
RECURSIVE SortInsert(_, _)
SortInsert(sorted, c) ==
  IF sorted = <<>> THEN <<c>>
  ELSE IF CharCode[c] < CharCode[sorted[1]] THEN <<c>> \o sorted
  ELSE <<sorted[1]>> \o SortInsert(Tail(sorted), c)
RECURSIVE sort(_)
sort(s) == IF s = <<>> THEN <<>> ELSE SortInsert(sort(SubSeq(s, 1, Len(s) - 1)), s[Len(s)])

\* normalizeColor applied to a string; the result is a one-character string
\* for every one-character argument
normalizeColor(color) ==
  LET lower == toLowerCase(color)
      hit == Lookup(COLOR_MAP, lower)
  IN  IF hit # <<>> THEN hit[1] ELSE toUpperCase(color)[1]

RECURSIVE parseColorLetters(_, _)
parseColorLetters(normalized, colors) ==
  IF normalized = <<>> THEN colors
  ELSE LET normalizedColor == normalizeColor(<<normalized[1]>>)
       IN  parseColorLetters(Tail(normalized),
             IF normalizedColor \notin Range(colors)
             THEN Append(colors, normalizedColor) ELSE colors)

parseColorSet(colorStr) ==
  LET normalized == toLowerCase(colorStr)
      combo == Lookup(COLOR_COMBINATION_MAP, normalized)
  IN  IF combo # <<>> THEN sort(combo[1])
      ELSE IF normalized = <<"c", "o", "l", "o", "r", "l", "e", "s", "s">> \/ normalized = <<"c">>
      THEN <<"C">>
      ELSE IF normalized = <<"m", "u", "l", "t", "i", "c", "o", "l", "o", "r">> \/ normalized = <<"m">>
      THEN <<"M">>
      ELSE sort(parseColorLetters(normalized, <<>>))

\* the lower-case keys an object literal inherits: COLOR_COMBINATION_MAP[key]
\* is truthy for them and is not iterable
InheritedKeys ==
  {<<"c", "o", "n", "s", "t", "r", "u", "c", "t", "o", "r">>,
   <<"_", "_", "p", "r", "o", "t", "o", "_", "_">>}

\* parseColorSet throws a TypeError: the spread of an inherited property
parseColorSetThrows(colorStr) == toLowerCase(colorStr) \in InheritedKeys

\* ------------------------------------------------------------------------
\* Tokenizer.  Scan positions i are 1-based indices into the query; the
\* start / end offsets stored in a token are the source's 0-based offsets.
\* ------------------------------------------------------------------------

Token(type, value, start, end) == [type |-> type, value |-> value, start |-> start, end |-> end]

\* body of a quoted string, entered after the opening quote
RECURSIVE readQuoted(_, _, _)
readQuoted(query, i, value) ==
  IF i <= Len(query) /\ query[i] # "\""
  THEN IF query[i] = "\\" /\ i + 1 <= Len(query)
       THEN readQuoted(query, i + 2, Append(value, query[i + 1]))
       ELSE readQuoted(query, i + 1, Append(value, query[i]))
  ELSE [value |-> value, i |-> IF i <= Len(query) THEN i + 1 ELSE i]

\* run of non-whitespace, non-parenthesis characters
RECURSIVE readWord(_, _, _)
readWord(query, i, value) ==
  IF i <= Len(query) /\ ~IsSpace(query[i]) /\ query[i] # "(" /\ query[i] # ")"
  THEN readWord(query, i + 1, Append(value, query[i]))
  ELSE [value |-> value, i |-> i]

\* index after the maximal run of characters of one class starting at i
RECURSIVE RunEndLetters(_, _)
RunEndLetters(query, i) ==
  IF i <= Len(query) /\ IsLetter(query[i]) THEN RunEndLetters(query, i + 1) ELSE i
RECURSIVE RunEndOps(_, _)
RunEndOps(query, i) ==
  IF i <= Len(query) /\ IsOpChar(query[i]) THEN RunEndOps(query, i + 1) ELSE i
RECURSIVE RunEndValue(_, _)
RunEndValue(query, i) ==
  IF i <= Len(query) /\ IsValueChar(query[i]) THEN RunEndValue(query, i + 1) ELSE i

\* /^([a-z]+)([<>=!]+)?:/i at position i
fieldMatchWithColon(query, i) ==
  LET j == RunEndLetters(query, i)
      k == RunEndOps(query, j)
  IN  IF j > i /\ k <= Len(query) /\ query[k] = ":"
      THEN [matched |-> TRUE, fieldName |-> toLowerCase(SubSeq(query, i, j - 1)),
            operator |-> SubSeq(query, j, k - 1), value |-> <<>>, next |-> k + 1]
      ELSE [matched |-> FALSE, fieldName |-> <<>>, operator |-> <<>>, value |-> <<>>, next |-> i]

\* mutant of fieldMatchNoColon: the value has to start with a digit
fieldMatchNoColon_NumberOnly(query, i) ==
  LET j == RunEndLetters(query, i)
      k == RunEndOps(query, j)
      m == IF k <= Len(query) /\ IsDigit(query[k]) THEN RunEndValue(query, k) ELSE k
  IN  IF j > i /\ k > j /\ m > k
      THEN [matched |-> TRUE, fieldName |-> toLowerCase(SubSeq(query, i, j - 1)),
            operator |-> SubSeq(query, j, k - 1), value |-> SubSeq(query, k, m - 1), next |-> m]
      ELSE [matched |-> FALSE, fieldName |-> <<>>, operator |-> <<>>, value |-> <<>>, next |-> i]
\* /^([a-z]+)([<>=!]+)([a-z0-9*]+)/i at position i
fieldMatchNoColon(query, i) ==
  LET j == RunEndLetters(query, i)
      k == RunEndOps(query, j)
      m == RunEndValue(query, k)
  IN  IF j > i /\ k > j /\ m > k
      THEN [matched |-> TRUE, fieldName |-> toLowerCase(SubSeq(query, i, j - 1)),
            operator |-> SubSeq(query, j, k - 1), value |-> SubSeq(query, k, m - 1), next |-> m]
      ELSE [matched |-> FALSE, fieldName |-> <<>>, operator |-> <<>>, value |-> <<>>, next |-> i]

\* /^\bOR\b/i at position i of the slice
orMatch(query, i) ==
  /\ i + 1 <= Len(query)
  /\ LowerChar(query[i]) = "o"
  /\ LowerChar(query[i + 1]) = "r"
  /\ (i + 2 > Len(query) \/ ~IsWordChar(query[i + 2]))

\* mutant of isUnaryMinus: a minus after whitespace is not recognised
isUnaryMinus_NotAfterSpace(query, i) ==
  query[i] = "-" /\ (i = 1 \/ query[i - 1] = "(")
\* the test of the NOT branch: a minus at the start, after whitespace or after (
isUnaryMinus(query, i) ==
  query[i] = "-" /\ (i = 1 \/ IsSpace(query[i - 1]) \/ query[i - 1] = "(")

\* one iteration of the while loop, given the two field-pattern matches at i:
\* the tokens and the scan position after it
tokenizeMatched(query, i, tokens, withColon, noColon) ==
  LET start == i - 1
  IN  IF IsSpace(query[i]) THEN [tokens |-> tokens, i |-> i + 1]
      ELSE IF query[i] = "\""
      THEN LET r == readQuoted(query, i + 1, <<>>)
           IN  [tokens |-> Append(tokens, Token("QUOTED_STRING", r.value, start, r.i - 1)), i |-> r.i]
      ELSE IF query[i] = "("
      THEN [tokens |-> Append(tokens, Token("LPAREN", <<"(">>, start, start + 1)), i |-> i + 1]
      ELSE IF query[i] = ")"
      THEN [tokens |-> Append(tokens, Token("RPAREN", <<")">>, start, start + 1)), i |-> i + 1]
      ELSE IF isUnaryMinus(query, i)
      THEN [tokens |-> Append(tokens, Token("NOT", <<"-">>, start, start + 1)), i |-> i + 1]
      ELSE IF withColon.matched
      THEN LET k == withColon.next
               r == IF k <= Len(query) /\ query[k] = "\""
                    THEN readQuoted(query, k + 1, <<>>)
                    ELSE readWord(query, k, <<>>)
           IN  [tokens |-> Append(tokens,
                              Token("FIELD", withColon.fieldName \o withColon.operator \o <<":">> \o r.value,
                                    start, r.i - 1)),
                i |-> r.i]
      ELSE IF noColon.matched
      THEN [tokens |-> Append(tokens,
                         Token("FIELD", noColon.fieldName \o noColon.operator \o <<":">> \o noColon.value,
                               start, noColon.next - 1)),
            i |-> noColon.next]
      ELSE IF orMatch(query, i)
      THEN [tokens |-> Append(tokens, Token("OR", <<"O", "R">>, start, start + 2)), i |-> i + 2]
      ELSE LET r == readWord(query, i, <<>>)
           IN  [tokens |-> IF r.value # <<>>
                           THEN Append(tokens, Token("PLAIN_TEXT", r.value, start, r.i - 1))
                           ELSE tokens,
                i |-> r.i]

\* mutant of tokenizeStep: the whitespace branch does not advance
tokenizeStep_SpaceKept(query, i, tokens) ==
  IF IsSpace(query[i]) THEN [tokens |-> tokens, i |-> i]
  ELSE tokenizeMatched(query, i, tokens, fieldMatchWithColon(query, i), fieldMatchNoColon(query, i))
tokenizeStep(query, i, tokens) ==
  tokenizeMatched(query, i, tokens, fieldMatchWithColon(query, i), fieldMatchNoColon(query, i))

RECURSIVE tokenizeLoop(_, _, _)
tokenizeLoop(query, i, tokens) ==
  IF i <= Len(query)
  THEN LET s == tokenizeStep(query, i, tokens) IN tokenizeLoop(query, s.i, s.tokens)
  ELSE tokens

RECURSIVE WithoutParens(_)
WithoutParens(tokens) ==
  IF tokens = <<>> THEN <<>>
  ELSE (IF tokens[1].type \in {"LPAREN", "RPAREN"} THEN <<>> ELSE <<tokens[1]>>)
       \o WithoutParens(Tail(tokens))
\* mutant of tokenize: parentheses are separators and produce no token
tokenize_ParensSkipped(query) == WithoutParens(tokenizeLoop(query, 1, <<>>))
tokenize(query) == tokenizeLoop(query, 1, <<>>)

\* ------------------------------------------------------------------------
\* Parser.  index is the source's 0-based cursor: the current token is
\* tokens[index + 1].  A result is [ok, node, index, error]; ok = FALSE
\* stands for the thrown Error and carries its message kind.
\* ------------------------------------------------------------------------

NoNode == [type |-> "NONE"]
Parsed(node, index) == [ok |-> TRUE, node |-> node, index |-> index, error |-> "none"]
Thrown(error, index) == [ok |-> FALSE, node |-> NoNode, index |-> index, error |-> error]

\* /^([a-z]+)([<>=!]+)?:(.+)$/i on a FIELD token's text
fieldSyntaxMatch(text) ==
  LET j == RunEndLetters(text, 1)
      k == RunEndOps(text, j)
  IN  IF j > 1 /\ k <= Len(text) /\ text[k] = ":" /\ k < Len(text)
      THEN [matched |-> TRUE, field |-> SubSeq(text, 1, j - 1),
            operator |-> SubSeq(text, j, k - 1), value |-> SubSeq(text, k + 1, Len(text))]
      ELSE [matched |-> FALSE, field |-> <<>>, operator |-> <<>>, value |-> <<>>]

\* mutant of parseRule: the right operand of OR is a whole OR chain, so OR
\* nests to the right
RECURSIVE parseRule_OrRightAssoc(_, _, _, _)
parseRule_OrRightAssoc(rule, tokens, left, index) ==
  IF rule = "parseOr"
  THEN LET first == parseRule_OrRightAssoc("parseAnd", tokens, NoNode, index)
       IN  IF ~first.ok THEN first ELSE parseRule_OrRightAssoc("parseOrLoop", tokens, first.node, first.index)
  ELSE IF rule = "parseOrLoop"
  THEN IF index < Len(tokens) /\ tokens[index + 1].type = "OR"
       THEN LET right == parseRule_OrRightAssoc("parseOr", tokens, NoNode, index + 1)
            IN  IF ~right.ok THEN right
                ELSE Parsed([type |-> "OR", left |-> left, right |-> right.node], right.index)
       ELSE Parsed(left, index)
  ELSE IF rule = "parseAnd"
  THEN LET first == parseRule_OrRightAssoc("parseNot", tokens, NoNode, index)
       IN  IF ~first.ok THEN first ELSE parseRule_OrRightAssoc("parseAndLoop", tokens, first.node, first.index)
  ELSE IF rule = "parseAndLoop"
  THEN IF index < Len(tokens) /\ tokens[index + 1].type # "OR" /\ tokens[index + 1].type # "RPAREN"
       THEN LET right == parseRule_OrRightAssoc("parseNot", tokens, NoNode, index)
            IN  IF ~right.ok THEN right
                ELSE parseRule_OrRightAssoc("parseAndLoop", tokens,
                               [type |-> "AND", left |-> left, right |-> right.node], right.index)
       ELSE Parsed(left, index)
  ELSE IF rule = "parseNot"
  THEN IF index < Len(tokens) /\ tokens[index + 1].type = "NOT"
       THEN LET operand == parseRule_OrRightAssoc("parseNot", tokens, NoNode, index + 1)
            IN  IF ~operand.ok THEN operand
                ELSE Parsed([type |-> "NOT", operand |-> operand.node], operand.index)
       ELSE parseRule_OrRightAssoc("parseTerm", tokens, NoNode, index)
  ELSE \* parseTerm
    IF index >= Len(tokens) THEN Thrown("Unexpected end of query", index)
    ELSE LET token == tokens[index + 1] IN
      IF token.type = "LPAREN"
      THEN LET expr == parseRule_OrRightAssoc("parseOr", tokens, NoNode, index + 1)
           IN  IF ~expr.ok THEN expr
               ELSE IF expr.index >= Len(tokens) \/ tokens[expr.index + 1].type # "RPAREN"
               THEN Thrown("Unmatched opening parenthesis", expr.index)
               ELSE Parsed(expr.node, expr.index + 1)
      ELSE IF token.type = "FIELD"
      THEN LET match == fieldSyntaxMatch(token.value)
           IN  IF ~match.matched THEN Thrown("Invalid field syntax", index + 1)
               ELSE Parsed([type |-> "FIELD", field |-> toLowerCase(match.field),
                            operator |-> match.operator, value |-> match.value], index + 1)
      ELSE IF token.type = "QUOTED_STRING" \/ token.type = "PLAIN_TEXT"
      THEN Parsed([type |-> "PLAIN_TEXT", value |-> token.value], index + 1)
      ELSE Thrown("Unexpected token", index)

\* The mutually recursive functions parseOr, parseAnd, parseNot and
\* parseTerm, and the while loops of parseOr and parseAnd, as one recursive
\* operator selected by the function's name; left is the loop's
\* accumulated node.
RECURSIVE parseRule(_, _, _, _)
parseRule(rule, tokens, left, index) ==
  IF rule = "parseOr"
  THEN LET first == parseRule("parseAnd", tokens, NoNode, index)
       IN  IF ~first.ok THEN first ELSE parseRule("parseOrLoop", tokens, first.node, first.index)
  ELSE IF rule = "parseOrLoop"
  THEN IF index < Len(tokens) /\ tokens[index + 1].type = "OR"
       THEN LET right == parseRule("parseAnd", tokens, NoNode, index + 1)
            IN  IF ~right.ok THEN right
                ELSE parseRule("parseOrLoop", tokens,
                               [type |-> "OR", left |-> left, right |-> right.node], right.index)
       ELSE Parsed(left, index)
  ELSE IF rule = "parseAnd"
  THEN LET first == parseRule("parseNot", tokens, NoNode, index)
       IN  IF ~first.ok THEN first ELSE parseRule("parseAndLoop", tokens, first.node, first.index)
  ELSE IF rule = "parseAndLoop"
  THEN IF index < Len(tokens) /\ tokens[index + 1].type # "OR" /\ tokens[index + 1].type # "RPAREN"
       THEN LET right == parseRule("parseNot", tokens, NoNode, index)
            IN  IF ~right.ok THEN right
                ELSE parseRule("parseAndLoop", tokens,
                               [type |-> "AND", left |-> left, right |-> right.node], right.index)
       ELSE Parsed(left, index)
  ELSE IF rule = "parseNot"
  THEN IF index < Len(tokens) /\ tokens[index + 1].type = "NOT"
       THEN LET operand == parseRule("parseNot", tokens, NoNode, index + 1)
            IN  IF ~operand.ok THEN operand
                ELSE Parsed([type |-> "NOT", operand |-> operand.node], operand.index)
       ELSE parseRule("parseTerm", tokens, NoNode, index)
  ELSE \* parseTerm
    IF index >= Len(tokens) THEN Thrown("Unexpected end of query", index)
    ELSE LET token == tokens[index + 1] IN
      IF token.type = "LPAREN"
      THEN LET expr == parseRule("parseOr", tokens, NoNode, index + 1)
           IN  IF ~expr.ok THEN expr
               ELSE IF expr.index >= Len(tokens) \/ tokens[expr.index + 1].type # "RPAREN"
               THEN Thrown("Unmatched opening parenthesis", expr.index)
               ELSE Parsed(expr.node, expr.index + 1)
      ELSE IF token.type = "FIELD"
      THEN LET match == fieldSyntaxMatch(token.value)
           IN  IF ~match.matched THEN Thrown("Invalid field syntax", index + 1)
               ELSE Parsed([type |-> "FIELD", field |-> toLowerCase(match.field),
                            operator |-> match.operator, value |-> match.value], index + 1)
      ELSE IF token.type = "QUOTED_STRING" \/ token.type = "PLAIN_TEXT"
      THEN Parsed([type |-> "PLAIN_TEXT", value |-> token.value], index + 1)
      ELSE Thrown("Unexpected token", index)

parseOr(tokens, index) == parseRule("parseOr", tokens, NoNode, index)
parseAnd(tokens, index) == parseRule("parseAnd", tokens, NoNode, index)
parseNot(tokens, index) == parseRule("parseNot", tokens, NoNode, index)
parseTerm(tokens, index) == parseRule("parseTerm", tokens, NoNode, index)
parseExpression(tokens, index) == parseOr(tokens, index)

\* mutant of parseEnd: tokens left after the expression are ignored
parseEnd_TrailingIgnored(tokens, ast) == ast
\* the check after parseExpression returns: no token may be left
parseEnd(tokens, ast) ==
  IF ~ast.ok THEN ast
  ELSE IF ast.index < Len(tokens) THEN Thrown("Unexpected token at position", ast.index)
  ELSE ast

parse(tokens) == parseEnd(tokens, parseExpression(tokens, 0))

parseTokens(tokens) ==
  IF tokens = <<>> THEN Thrown("Query contains no valid tokens", 0) ELSE parse(tokens)

parseTrimmed(trimmed) ==
  IF trimmed = <<>> THEN Thrown("Query cannot be empty", 0) ELSE parseTokens(tokenize(trimmed))

parseQuery(query) == parseTrimmed(trim(query))

\* ------------------------------------------------------------------------
\* Field resolver.  A condition is <<>> (null: no-opinion) or <<c>> with c a
\* record tagged by k that stands for the generated SQL fragment.
\* ------------------------------------------------------------------------

fieldMap ==
  <<<<<<"n">>, "name">>,
    <<<<"n", "a", "m", "e">>, "name">>,
    <<<<"t">>, "type">>,
    <<<<"t", "y", "p", "e">>, "type">>,
    <<<<"o">>, "oracle">>,
    <<<<"o", "r", "a", "c", "l", "e">>, "oracle">>,
    <<<<"c">>, "colors">>,
    <<<<"c", "o", "l", "o", "r">>, "colors">>,
    <<<<"c", "o", "l", "o", "r", "s">>, "colors">>,
    <<<<"c", "i">>, "color_identity">>,
    <<<<"i", "d">>, "color_identity">>,
    <<<<"i", "d", "e", "n", "t", "i", "t", "y">>, "color_identity">>,
    <<<<"c", "o", "l", "o", "r", "_", "i", "d", "e", "n", "t", "i", "t", "y">>, "color_identity">>,
    <<<<"c", "m", "c">>, "cmc">>,
    <<<<"m", "v">>, "cmc">>,
    <<<<"m", "a", "n", "a", "v", "a", "l", "u", "e">>, "cmc">>,
    <<<<"m">>, "mana_cost">>,
    <<<<"m", "a", "n", "a">>, "mana_cost">>,
    <<<<"k">>, "keyword">>,
    <<<<"k", "w">>, "keyword">>,
    <<<<"k", "e", "y", "w", "o", "r", "d">>, "keyword">>,
    <<<<"f">>, "format">>,
    <<<<"f", "o", "r", "m", "a", "t">>, "format">>,
    <<<<"b", "a", "n", "n", "e", "d">>, "banned">>,
    <<<<"r", "e", "s", "t", "r", "i", "c", "t", "e", "d">>, "restricted">>,
    <<<<"p", "o", "w">>, "power">>,
    <<<<"p", "o", "w", "e", "r">>, "power">>,
    <<<<"t", "o", "u">>, "toughness">>,
    <<<<"t", "o", "u", "g", "h", "n", "e", "s", "s">>, "toughness">>,
    <<<<"p", "t">>, "power_toughness">>,
    <<<<"p", "o", "w", "t", "o", "u">>, "power_toughness">>>>

validFormats ==
  <<<<"s", "t", "a", "n", "d", "a", "r", "d">>,
    <<"f", "u", "t", "u", "r", "e">>,
    <<"h", "i", "s", "t", "o", "r", "i", "c">>,
    <<"g", "l", "a", "d", "i", "a", "t", "o", "r">>,
    <<"p", "i", "o", "n", "e", "e", "r">>,
    <<"e", "x", "p", "l", "o", "r", "e", "r">>,
    <<"m", "o", "d", "e", "r", "n">>,
    <<"l", "e", "g", "a", "c", "y">>,
    <<"p", "a", "u", "p", "e", "r">>,
    <<"v", "i", "n", "t", "a", "g", "e">>,
    <<"p", "e", "n", "n", "y">>,
    <<"c", "o", "m", "m", "a", "n", "d", "e", "r">>,
    <<"o", "a", "t", "h", "b", "r", "e", "a", "k", "e", "r">>,
    <<"b", "r", "a", "w", "l">>,
    <<"h", "i", "s", "t", "o", "r", "i", "c", "b", "r", "a", "w", "l">>,
    <<"a", "l", "c", "h", "e", "m", "y">>,
    <<"p", "a", "u", "p", "e", "r", "c", "o", "m", "m", "a", "n", "d", "e", "r">>,
    <<"d", "u", "e", "l">>,
    <<"o", "l", "d", "s", "c", "h", "o", "o", "l">>,
    <<"p", "r", "e", "m", "o", "d", "e", "r", "n">>,
    <<"p", "r", "e", "d", "h">>>>

\* the digits of a decimal prefix, most significant first
RECURSIVE DigitsValue(_, _)
DigitsValue(s, acc) ==
  IF s # <<>> /\ IsDigit(s[1]) THEN DigitsValue(Tail(s), 10 * acc + (CharCode[s[1]] - 48)) ELSE acc

\* parseInt(value, 10): <<>> is NaN
parseInt(value) ==
  LET s == trimStart(value)
      neg == s # <<>> /\ s[1] = "-"
      body == IF s # <<>> /\ s[1] \in {"-", "+"} THEN Tail(s) ELSE s
  IN  IF body = <<>> \/ ~IsDigit(body[1]) THEN <<>>
      ELSE <<IF neg THEN 0 - DigitsValue(body, 0) ELSE DigitsValue(body, 0)>>

\* parseFloat(value) on values without fraction or exponent part
parseFloat(value) == parseInt(value)

\* like(lower(col), `%${searchValue}%`)
likeCondition(col, searchValue) ==
  [k |-> "like", col |-> col, pattern |-> <<"%">> \o searchValue \o <<"%">>]

cmcCondition(operator, numValue) ==
  [k |-> "cmc",
   op |-> IF operator \in {<<"=">>, <<"<", "=">>, <<">", "=">>, <<"<">>, <<">">>, <<"!", "=">>}
          THEN operator ELSE <<"=">>,
   num |-> numValue]

numericCondition(k, operator, numValue) ==
  [k |-> k,
   op |-> IF operator \in {<<"=">>, <<"<", "=">>, <<">", "=">>, <<"<">>, <<">">>, <<"!", "=">>}
          THEN operator ELSE <<"=">>,
   num |-> numValue]

\* mutant of colorCondition: no operator means "contains all of"
colorCondition_DefaultAsSuperset(col, operator, colorSet) ==
  [k |-> IF operator = <<"=">> THEN "json_eq"
         ELSE IF operator = <<"<", "=">> THEN "json_subset"
         ELSE IF operator = <<">", "=">> THEN "json_superset"
         ELSE IF operator = <<"!">> \/ operator = <<"!", "=">> THEN "json_ne"
         ELSE "json_superset",
   col |-> col, colorSet |-> colorSet]
\* mutant of colorCondition: the subset and superset operators are swapped
colorCondition_SubsetSwapped(col, operator, colorSet) ==
  [k |-> IF operator = <<"=">> THEN "json_eq"
         ELSE IF operator = <<"<", "=">> THEN "json_superset"
         ELSE IF operator = <<">", "=">> THEN "json_subset"
         ELSE IF operator = <<"!">> \/ operator = <<"!", "=">> THEN "json_ne"
         ELSE "json_any",
   col |-> col, colorSet |-> colorSet]
\* the operator switch shared by the colors and color_identity branches
colorCondition(col, operator, colorSet) ==
  [k |-> IF operator = <<"=">> THEN "json_eq"
         ELSE IF operator = <<"<", "=">> THEN "json_subset"
         ELSE IF operator = <<">", "=">> THEN "json_superset"
         ELSE IF operator = <<"!">> \/ operator = <<"!", "=">> THEN "json_ne"
         ELSE "json_any",
   col |-> col, colorSet |-> colorSet]

\* mutant of legalityCondition: the allow-list is not consulted
legalityCondition_AnyFormat(formatLower, status) ==
  <<[k |-> "legality", format |-> formatLower, status |-> status]>>
legalityCondition(formatLower, status) ==
  IF formatLower \notin Range(validFormats) THEN <<>>
  ELSE <<[k |-> "legality", format |-> formatLower, status |-> status]>>

\* mutant of cmcValueCondition: odd tests the same remainder as even
cmcValueCondition_OddAsEven(operator, lower, numValue) ==
  IF lower = <<"e", "v", "e", "n">> THEN <<[k |-> "parity", rem |-> 0]>>
  ELSE IF lower = <<"o", "d", "d">> THEN <<[k |-> "parity", rem |-> 0]>>
  ELSE IF numValue = <<>> THEN <<>>
  ELSE <<cmcCondition(operator, numValue[1])>>
cmcValueCondition(operator, lower, numValue) ==
  IF lower = <<"e", "v", "e", "n">> THEN <<[k |-> "parity", rem |-> 0]>>
  ELSE IF lower = <<"o", "d", "d">> THEN <<[k |-> "parity", rem |-> 1]>>
  ELSE IF numValue = <<>> THEN <<>>
  ELSE <<cmcCondition(operator, numValue[1])>>

powerCondition(operator, lower, numValue) ==
  IF lower = <<"t", "o", "u">> \/ lower = <<"t", "o", "u", "g", "h", "n", "e", "s", "s">>
  THEN <<[k |-> "power_gt_toughness"]>>
  ELSE IF numValue = <<>> THEN <<>>
  ELSE <<numericCondition("power", operator, numValue[1])>>

toughnessCondition(operator, numValue) ==
  IF numValue = <<>> THEN <<>> ELSE <<numericCondition("toughness", operator, numValue[1])>>

colorSetCondition(col, operator, colorSet) ==
  IF colorSet = <<>> THEN <<>> ELSE <<colorCondition(col, operator, colorSet)>>

\* the branches of fieldToCondition, given fieldMap[field] (<<>> when
\* absent) and value.toLowerCase()
fieldBranches(hit, operator, value, lower, defaultTable) ==
  IF hit = <<>> THEN <<>>
  ELSE IF hit[1] = "name" THEN <<likeCondition("name", lower)>>
  ELSE IF hit[1] = "type" THEN <<likeCondition("type_line", lower)>>
  ELSE IF hit[1] = "oracle" THEN <<likeCondition("oracle_text", lower)>>
  ELSE IF hit[1] = "cmc" THEN cmcValueCondition(operator, lower, parseInt(value))
  ELSE IF hit[1] = "mana_cost" THEN <<likeCondition("mana_cost", lower)>>
  ELSE IF hit[1] = "power"
  THEN IF ~defaultTable THEN <<>> ELSE powerCondition(operator, lower, parseFloat(value))
  ELSE IF hit[1] = "toughness"
  THEN IF ~defaultTable THEN <<>> ELSE toughnessCondition(operator, parseFloat(value))
  ELSE IF hit[1] \in {"colors", "color_identity"}
  THEN IF parseColorSetThrows(value) THEN <<[k |-> "throw"]>>
       ELSE colorSetCondition(hit[1], operator, parseColorSet(value))
  ELSE IF hit[1] = "keyword" THEN <<[k |-> "keyword", value |-> lower]>>
  ELSE IF hit[1] = "format" THEN legalityCondition(lower, "legal")
  ELSE IF hit[1] = "banned" THEN legalityCondition(lower, "banned")
  ELSE IF hit[1] = "restricted" THEN legalityCondition(lower, "restricted")
  ELSE <<>>

\* defaultTable: TRUE when default_cards is joined (searchOracleCards)
fieldToCondition(node, defaultTable) ==
  fieldBranches(Lookup(fieldMap, node.field), node.operator, node.value,
                toLowerCase(node.value), defaultTable)

plainTextToCondition(node) ==
  [k |-> "or",
   left |-> likeCondition("name", toLowerCase(node.value)),
   right |-> likeCondition("oracle_text", toLowerCase(node.value))]

\* mutant of astToCondition: an AND or OR with a no-opinion side is no-opinion
RECURSIVE astToCondition_NullAbsorbs(_, _)
astToCondition_NullAbsorbs(ast, defaultTable) ==
  IF ast.type \in {"AND", "OR"}
  THEN LET left == astToCondition_NullAbsorbs(ast.left, defaultTable)
           right == astToCondition_NullAbsorbs(ast.right, defaultTable)
       IN  IF left = <<>> \/ right = <<>> THEN <<>>
           ELSE <<[k |-> IF ast.type = "AND" THEN "and" ELSE "or",
                   left |-> left[1], right |-> right[1]]>>
  ELSE IF ast.type = "NOT"
  THEN LET operand == astToCondition_NullAbsorbs(ast.operand, defaultTable)
       IN  IF operand = <<>> THEN <<>> ELSE <<[k |-> "not", operand |-> operand[1]]>>
  ELSE IF ast.type = "FIELD" THEN fieldToCondition(ast, defaultTable)
  ELSE IF ast.type = "PLAIN_TEXT" THEN <<plainTextToCondition(ast)>>
  ELSE <<>>

RECURSIVE astToCondition(_, _)
astToCondition(ast, defaultTable) ==
  IF ast.type = "AND"
  THEN LET leftAnd == astToCondition(ast.left, defaultTable)
           rightAnd == astToCondition(ast.right, defaultTable)
       IN  IF leftAnd = <<>> THEN rightAnd
           ELSE IF rightAnd = <<>> THEN leftAnd
           ELSE <<[k |-> "and", left |-> leftAnd[1], right |-> rightAnd[1]]>>
  ELSE IF ast.type = "OR"
  THEN LET leftOr == astToCondition(ast.left, defaultTable)
           rightOr == astToCondition(ast.right, defaultTable)
       IN  IF leftOr = <<>> THEN rightOr
           ELSE IF rightOr = <<>> THEN leftOr
           ELSE <<[k |-> "or", left |-> leftOr[1], right |-> rightOr[1]]>>
  ELSE IF ast.type = "NOT"
  THEN LET operand == astToCondition(ast.operand, defaultTable)
       IN  IF operand = <<>> THEN <<>> ELSE <<[k |-> "not", operand |-> operand[1]]>>
  ELSE IF ast.type = "FIELD" THEN fieldToCondition(ast, defaultTable)
  ELSE IF ast.type = "PLAIN_TEXT" THEN <<plainTextToCondition(ast)>>
  ELSE <<>>

\* ------------------------------------------------------------------------
\* Evaluation of a condition against one joined row, in SQL three-valued
\* logic: "T" true, "F" false, "N" unknown (NULL).
\* ------------------------------------------------------------------------

\* mutant of And3: the conjunction built with or() instead of and()
And3_AsOr(a, b) == IF a = "T" \/ b = "T" THEN "T" ELSE IF a = "F" /\ b = "F" THEN "F" ELSE "N"
And3(a, b) == IF a = "F" \/ b = "F" THEN "F" ELSE IF a = "T" /\ b = "T" THEN "T" ELSE "N"
\* mutant of Or3: the disjunction built with and() instead of or()
Or3_AsAnd(a, b) == IF a = "F" \/ b = "F" THEN "F" ELSE IF a = "T" /\ b = "T" THEN "T" ELSE "N"
Or3(a, b) == IF a = "T" \/ b = "T" THEN "T" ELSE IF a = "F" /\ b = "F" THEN "F" ELSE "N"
Not3(a) == IF a = "T" THEN "F" ELSE IF a = "F" THEN "T" ELSE "N"
Bool3(b) == IF b THEN "T" ELSE "F"

\* s LIKE p: % any run, _ any one character, backslash escapes the next one
RECURSIVE Like(_, _)
Like(s, p) ==
  IF p = <<>> THEN s = <<>>
  ELSE IF p[1] = "%" THEN Like(s, Tail(p)) \/ (s # <<>> /\ Like(Tail(s), p))
  ELSE IF p[1] = "_" THEN s # <<>> /\ Like(Tail(s), Tail(p))
  ELSE IF p[1] = "\\"
  THEN Len(p) >= 2 /\ s # <<>> /\ s[1] = p[2] /\ Like(Tail(s), SubSeq(p, 3, Len(p)))
  ELSE s # <<>> /\ s[1] = p[1] /\ Like(Tail(s), Tail(p))

Compare(op, a, b) ==
  IF op = <<"=">> THEN a = b
  ELSE IF op = <<"<", "=">> THEN a <= b
  ELSE IF op = <<">", "=">> THEN a >= b
  ELSE IF op = <<"<">> THEN a < b
  ELSE IF op = <<">">> THEN a > b
  ELSE a # b

\* a text column of oracle_cards as a nullable value
TextColumn(oc, col) ==
  IF col = "name" THEN <<oc.name>>
  ELSE IF col = "type_line" THEN <<oc.typeLine>>
  ELSE IF col = "oracle_text" THEN oc.oracleText
  ELSE oc.manaCost

JsonColumn(oc, col) == IF col = "colors" THEN oc.colors ELSE oc.colorIdentity

\* (dc.data->>'power') ~ '^[0-9]+(\.[0-9]+)?$' on the stored text
IsNumericText(s) == s # <<>> /\ \A i \in 1..Len(s) : IsDigit(s[i])

NumericColumn(text, op, num) ==
  IF text = <<>> THEN "N"
  ELSE IF ~IsNumericText(text[1]) THEN "F"
  ELSE Bool3(Compare(op, DigitsValue(text[1], 0), num))

RECURSIVE Eval(_, _, _)
Eval(c, oc, dc) ==
  IF c.k = "and" THEN And3(Eval(c.left, oc, dc), Eval(c.right, oc, dc))
  ELSE IF c.k = "or" THEN Or3(Eval(c.left, oc, dc), Eval(c.right, oc, dc))
  ELSE IF c.k = "not" THEN Not3(Eval(c.operand, oc, dc))
  ELSE IF c.k = "like"
  THEN LET v == TextColumn(oc, c.col)
       IN  IF v = <<>> THEN "N" ELSE Bool3(Like(toLowerCase(v[1]), c.pattern))
  ELSE IF c.k = "parity"
  THEN IF oc.cmc = <<>> THEN "N" ELSE Bool3(oc.cmc[1] % 2 = c.rem)
  ELSE IF c.k = "cmc"
  THEN IF oc.cmc = <<>> THEN "N" ELSE Bool3(Compare(c.op, oc.cmc[1], c.num))
  ELSE IF c.k = "json_eq"
  THEN LET v == JsonColumn(oc, c.col)
       IN  IF v = <<>> THEN "N" ELSE Bool3(v[1] = c.colorSet)
  ELSE IF c.k = "json_ne"
  THEN LET v == JsonColumn(oc, c.col)
       IN  IF v = <<>> THEN "N" ELSE Bool3(v[1] # c.colorSet)
  ELSE IF c.k = "json_subset"
  THEN LET v == JsonColumn(oc, c.col)
       IN  IF v = <<>> THEN "T" ELSE Bool3(\A i \in 1..Len(v[1]) : v[1][i] \in Range(c.colorSet))
  ELSE IF c.k = "json_superset"
  THEN LET v == JsonColumn(oc, c.col)
           cardColors == IF v = <<>> THEN {} ELSE Range(v[1])
       IN  Bool3(\A i \in 1..Len(c.colorSet) : c.colorSet[i] \in cardColors)
  ELSE IF c.k = "json_any"
  THEN LET v == JsonColumn(oc, c.col)
       IN  IF v = <<>> THEN "N" ELSE Bool3(Range(v[1]) \cap Range(c.colorSet) # {})
  ELSE IF c.k = "keyword"
  THEN IF oc.keywords = <<>> THEN "F"
       ELSE Bool3(\E i \in 1..Len(oc.keywords[1]) : toLowerCase(oc.keywords[1][i]) = c.value)
  ELSE IF c.k = "legality"
  THEN IF oc.legalities = <<>> \/ Lookup(oc.legalities[1], c.format) = <<>> THEN "N"
       ELSE Bool3(Lookup(oc.legalities[1], c.format)[1] = c.status)
  ELSE IF c.k = "power" THEN NumericColumn(dc.power, c.op, c.num)
  ELSE IF c.k = "toughness" THEN NumericColumn(dc.toughness, c.op, c.num)
  ELSE IF c.k = "power_gt_toughness"
  THEN IF dc.power = <<>> \/ dc.toughness = <<>> THEN
         IF (dc.power # <<>> /\ ~IsNumericText(dc.power[1]))
            \/ (dc.toughness # <<>> /\ ~IsNumericText(dc.toughness[1])) THEN "F" ELSE "N"
       ELSE IF ~IsNumericText(dc.power[1]) \/ ~IsNumericText(dc.toughness[1]) THEN "F"
       ELSE Bool3(DigitsValue(dc.power[1], 0) > DigitsValue(dc.toughness[1], 0))
  ELSE "N"

\* ------------------------------------------------------------------------
\* State: the three tables and the record of the last search call; the
\* search invocations suspended at their await; the tokenizer's locals
\* between the turns of its loop; the HTTP server's session
\* map, the transports it created, its suspended handlers, the process and
\* the last HTTP reply.  Tables and the map are sequences in insertion order.
\* ------------------------------------------------------------------------

VARIABLES oracle_cards, default_cards, inventory, call,
          running, scan, transports, created, inflight, process, reply

tableVars == <<oracle_cards, default_cards, inventory, call>>
serverVars == <<transports, created, inflight, process, reply>>
vars == <<oracle_cards, default_cards, inventory, call,
          running, scan, transports, created, inflight, process, reply>>

\* bounds of the model
MaxCards == 2
MaxInventory == 1
MaxLimit == 2

\* the upstream oracle-card feed the loader draws from
CardPool ==
  <<[oracleId |-> "k1", name |-> <<"A", "b">>, manaCost |-> <<<<"{", "U", "}">>>>, cmc |-> <<1>>,
     typeLine |-> <<"A">>, oracleText |-> <<<<"b">>>>,
     colors |-> <<<<"U">>>>, colorIdentity |-> <<<<"U">>>>,
     keywords |-> <<<<<<"F", "l", "y">>>>>>,
     legalities |-> <<<<<<<<"m", "o", "d", "e", "r", "n">>, "legal">>, <<<<"l", "e", "g", "a", "c", "y">>, "banned">>>>>>],
    [oracleId |-> "k2", name |-> <<"b">>, manaCost |-> <<<<"{", "W", "}", "{", "U", "}">>>>, cmc |-> <<2>>,
     typeLine |-> <<"B">>, oracleText |-> <<>>,
     colors |-> <<<<"W", "U">>>>, colorIdentity |-> <<<<"W", "U">>>>,
     keywords |-> <<<<>>>>,
     legalities |-> <<<<<<<<"m", "o", "d", "e", "r", "n">>, "not_legal">>>>>>],
    [oracleId |-> "k3", name |-> <<"c">>, manaCost |-> <<>>, cmc |-> <<0>>,
     typeLine |-> <<"a", " ", "b">>, oracleText |-> <<<<"a">>>>,
     colors |-> <<<<>>>>, colorIdentity |-> <<<<>>>>,
     keywords |-> <<>>,
     legalities |-> <<>>],
    [oracleId |-> "k4", name |-> <<"a">>, manaCost |-> <<<<"{", "1", "}", "{", "B", "}">>>>, cmc |-> <<>>,
     typeLine |-> <<"c">>, oracleText |-> <<<<"a", "_", "b">>>>,
     colors |-> <<>>, colorIdentity |-> <<<<"B", "U">>>>,
     keywords |-> <<<<<<"H", "a", "s", "t", "e">>>>>>,
     legalities |-> <<<<<<<<"v", "i", "n", "t", "a", "g", "e">>, "restricted">>>>>>],
    [oracleId |-> "k5", name |-> <<"d">>, manaCost |-> <<<<"{", "3", "}">>>>, cmc |-> <<3>>,
     typeLine |-> <<"b">>, oracleText |-> <<<<"a", "b">>>>,
     colors |-> <<<<"U", "W">>>>, colorIdentity |-> <<<<"U", "W">>>>,
     keywords |-> <<<<>>>>,
     legalities |-> <<<<<<<<"m", "o", "d", "e", "r", "n">>, "legal">>>>>>],
    [oracleId |-> "k6", name |-> <<"e">>, manaCost |-> <<<<"{", "4", "}">>>>, cmc |-> <<4>>,
     typeLine |-> <<"a">>, oracleText |-> <<<<"%">>>>,
     colors |-> <<<<"B">>>>, colorIdentity |-> <<<<"B", "R">>>>,
     keywords |-> <<<<<<"F", "l", "y">>, <<"H", "a", "s", "t", "e">>>>>>,
     legalities |-> <<<<<<<<"m", "o", "d", "e", "r", "n">>, "banned">>>>>>]>>

\* the upstream printing feed
PrintingPool ==
  <<[id |-> "p1", oracleId |-> "k1", power |-> <<<<"1">>>>, toughness |-> <<<<"1">>>>],
    [id |-> "p2", oracleId |-> "k1", power |-> <<<<"2">>>>, toughness |-> <<<<"1">>>>],
    [id |-> "p3", oracleId |-> "k2", power |-> <<<<"3">>>>, toughness |-> <<<<"3">>>>],
    [id |-> "p4", oracleId |-> "k3", power |-> <<<<"*">>>>, toughness |-> <<<<"2">>>>],
    [id |-> "p5", oracleId |-> "k4", power |-> <<<<"2">>>>, toughness |-> <<<<"1">>>>],
    [id |-> "p6", oracleId |-> "k5", power |-> <<<<"3">>>>, toughness |-> <<<<"2">>>>],
    [id |-> "p7", oracleId |-> "k6", power |-> <<>>, toughness |-> <<>>]>>

Limits == 0..MaxLimit

Min(a, b) == IF a < b THEN a ELSE b
Take(s, n) == SubSeq(s, 1, Min(n, Len(s)))

\* n consecutive cards of the feed starting at s, wrapping around
FeedWindow(s, n) == [j \in 1..n |-> CardPool[((s + j - 2) % Len(CardPool)) + 1]]

OracleIds(cards) == {cards[i].oracleId : i \in 1..Len(cards)}

RECURSIVE PrintingsOf(_, _)
PrintingsOf(printings, ids) ==
  IF printings = <<>> THEN <<>>
  ELSE IF printings[1].oracleId \in ids THEN <<printings[1]>> \o PrintingsOf(Tail(printings), ids)
  ELSE PrintingsOf(Tail(printings), ids)

NoCall ==
  [fn |-> "none", query |-> <<>>, limit |-> 0, status |-> "none", error |-> "none",
   condition |-> <<>>, matched |-> <<>>, rows |-> <<>>]

NoPrinting == [id |-> "", oracleId |-> "", power |-> <<>>, toughness |-> <<>>]

\* no tokenize call under way
NoScan == [at |-> "idle", query |-> <<>>, i |-> 1, tokens |-> <<>>, turns |-> 0]

\* no HTTP request answered yet
NoReply ==
  [verb |-> "none", init |-> FALSE, session |-> <<>>, status |-> 0, code |-> 0, transport |-> 0]

Init ==
  /\ oracle_cards = <<>>
  /\ default_cards = <<>>
  /\ inventory = <<>>
  /\ call = NoCall
  /\ running = <<>>
  /\ scan = NoScan
  /\ transports = <<>>
  /\ created = <<>>
  /\ inflight = {}
  /\ process = "listening"
  /\ reply = NoReply

\* FROM default_cards dc INNER JOIN oracle_cards oc ON dc.oracle_id = oc.oracle_id
RECURSIVE JoinDefault(_, _)
JoinDefault(dcs, ocs) ==
  IF dcs = <<>> THEN <<>>
  ELSE LET hit == {i \in 1..Len(ocs) : ocs[i].oracleId = dcs[1].oracleId}
       IN  (IF hit = {} THEN <<>> ELSE <<[oc |-> ocs[CHOOSE i \in hit : TRUE], dc |-> dcs[1]]>>)
           \o JoinDefault(Tail(dcs), ocs)

\* FROM inventory INNER JOIN oracle_cards ON inventory.oracle_id = oracle_cards.oracle_id
RECURSIVE JoinInventory(_, _)
JoinInventory(invs, ocs) ==
  IF invs = <<>> THEN <<>>
  ELSE LET hit == {i \in 1..Len(ocs) : ocs[i].oracleId = invs[1].oracleId}
       IN  (IF hit = {} THEN <<>> ELSE <<[oc |-> ocs[CHOOSE i \in hit : TRUE], dc |-> NoPrinting]>>)
           \o JoinInventory(Tail(invs), ocs)

\* WHERE condition: the joined rows on which the condition is true
RECURSIVE Where(_, _)
Where(rows, condition) ==
  IF rows = <<>> THEN <<>>
  ELSE (IF Eval(condition, rows[1].oc, rows[1].dc) = "T"
        THEN <<[oracleId |-> rows[1].oc.oracleId, setId |-> rows[1].dc.id]>> ELSE <<>>)
       \o Where(Tail(rows), condition)

\* what stops a compiled query from running: "TypeError" when a branch of
\* fieldToCondition threw, "syntax error" when a color letter spliced by
\* sql.raw is the quote character, which leaves the statement unparsable
RECURSIVE Failures(_)
Failures(c) ==
  IF c.k \in {"and", "or"} THEN Failures(c.left) \cup Failures(c.right)
  ELSE IF c.k = "not" THEN Failures(c.operand)
  ELSE IF c.k = "throw" THEN {"TypeError"}
  ELSE IF c.k \in {"json_subset", "json_superset", "json_any"} /\ "'" \in Range(c.colorSet)
  THEN {"syntax error"}
  ELSE {}

\* the Error a search rejects with after a successful parse
Rejected(fn, query, limit, condition, failures) ==
  [fn |-> fn, query |-> query, limit |-> limit, status |-> "error",
   error |-> IF "TypeError" \in failures THEN "TypeError" ELSE "Database query failed",
   condition |-> condition, matched |-> <<>>, rows |-> <<>>]

Outcome(fn, query, limit, parsed, condition, matched) ==
  [fn |-> fn, query |-> query, limit |-> limit,
   status |-> IF parsed.ok THEN "ok" ELSE "error", error |-> parsed.error,
   condition |-> condition, matched |-> matched, rows |-> Take(matched, limit)]

\* the SQL statement of searchOracleCards, given what stops it
\* SELECT DISTINCT over the selected columns, dc.id among them: a row is
\* dropped when an equal row precedes it
RECURSIVE Distinct(_, _)
Distinct(rows, seen) ==
  IF rows = <<>> THEN <<>>
  ELSE (IF rows[1] \in seen THEN <<>> ELSE <<rows[1]>>)
       \o Distinct(Tail(rows), seen \cup {rows[1]})

searchOracleCardsQuery(query, limit, ast, condition, failures, ocs, dcs) ==
  IF failures # {} THEN Rejected("searchOracleCards", query, limit, condition, failures)
  ELSE Outcome("searchOracleCards", query, limit, ast, condition,
               Distinct(Where(JoinDefault(dcs, ocs), condition[1]), {}))

\* mutant of searchOracleCardsExecute: a null condition leaves out the WHERE
searchOracleCardsExecute_NoWhere(query, limit, ast, condition, ocs, dcs) ==
  IF condition = <<>>
  THEN Outcome("searchOracleCards", query, limit, ast, condition,
               [i \in 1..Len(JoinDefault(dcs, ocs)) |->
                  [oracleId |-> JoinDefault(dcs, ocs)[i].oc.oracleId,
                   setId |-> JoinDefault(dcs, ocs)[i].dc.id]])
  ELSE searchOracleCardsQuery(query, limit, ast, condition, Failures(condition[1]), ocs, dcs)
\* searchOracleCards after astToCondition
searchOracleCardsExecute(query, limit, ast, condition, ocs, dcs) ==
  IF condition = <<>> THEN Outcome("searchOracleCards", query, limit, ast, condition, <<>>)
  ELSE searchOracleCardsQuery(query, limit, ast, condition, Failures(condition[1]), ocs, dcs)

\* searchOracleCards after parseQuery
searchOracleCardsParsed(query, limit, ast, ocs, dcs) ==
  IF ~ast.ok THEN Outcome("searchOracleCards", query, limit, ast, <<>>, <<>>)
  ELSE searchOracleCardsExecute(query, limit, ast, astToCondition(ast.node, TRUE), ocs, dcs)

\* the value searchOracleCards resolves to (status "ok") or the Error it
\* rejects with (status "error"), against the given tables
searchOracleCards(query, limit, ocs, dcs) ==
  searchOracleCardsParsed(query, limit, parseQuery(query), ocs, dcs)

\* the SQL statement of searchCollection, given what stops it
searchCollectionQuery(query, limit, ast, condition, failures, ocs, invs) ==
  IF failures # {} THEN Rejected("searchCollection", query, limit, condition, failures)
  ELSE Outcome("searchCollection", query, limit, ast, condition,
               Where(JoinInventory(invs, ocs), condition[1]))

searchCollectionExecute(query, limit, ast, condition, ocs, invs) ==
  IF condition = <<>> THEN Outcome("searchCollection", query, limit, ast, condition, <<>>)
  ELSE searchCollectionQuery(query, limit, ast, condition, Failures(condition[1]), ocs, invs)

searchCollectionParsed(query, limit, ast, ocs, invs) ==
  IF ~ast.ok THEN Outcome("searchCollection", query, limit, ast, <<>>, <<>>)
  ELSE searchCollectionExecute(query, limit, ast, astToCondition(ast.node, FALSE), ocs, invs)

searchCollection(query, limit, ocs, invs) ==
  searchCollectionParsed(query, limit, parseQuery(query), ocs, invs)

\* loader main(): replace oracle_cards, then default_cards, from the feeds
loadDataset ==
  \E s \in 1..Len(CardPool), n \in 0..MaxCards :
    /\ inventory = <<>>
    /\ call = NoCall
    /\ oracle_cards' = FeedWindow(s, n)
    /\ default_cards' = PrintingsOf(PrintingPool, OracleIds(FeedWindow(s, n)))
    /\ call' = NoCall
    /\ UNCHANGED <<inventory, running, scan, serverVars>>

\* a row of the inventory table, written by the collection's owner
inventoryInsert ==
  \E i \in 1..Len(oracle_cards) :
    /\ call = NoCall
    /\ Len(inventory) < MaxInventory
    /\ oracle_cards[i].oracleId \notin OracleIds(inventory)
    /\ inventory' = Append(inventory, [oracleId |-> oracle_cards[i].oracleId, qty |-> 1])
    /\ call' = NoCall
    /\ UNCHANGED <<oracle_cards, default_cards, running, scan, serverVars>>

\* the tool handler serialises the results into its response
respond ==
  /\ call # NoCall
  /\ call' = NoCall
  /\ UNCHANGED <<oracle_cards, default_cards, inventory, running, scan, serverVars>>

\* The statements have no ORDER BY: the rows come in the order of the join
\* the planner picks, driven by the FROM table ("listed") or by the joined
\* oracle_cards table ("joined"); LIMIT cuts that order.
Plans == {"listed", "joined"}

\* the rows grouped in the order of their cards in oracle_cards
RECURSIVE ByOracleOrder(_, _)
ByOracleOrder(matched, ocs) ==
  IF ocs = <<>> THEN <<>>
  ELSE SelectSeq(matched, LAMBDA r : r.oracleId = ocs[1].oracleId)
       \o ByOracleOrder(matched, Tail(ocs))

\* the rows the statement returns under the plan
Fetched(outcome, plan, ocs) ==
  IF plan = "listed" THEN outcome
  ELSE [outcome EXCEPT !.rows = Take(ByOracleOrder(outcome.matched, ocs), outcome.limit)]

\* tool call oracle_search with a query of the set Q
OracleSearch(Q) ==
  \E query \in Q, limit \in Limits :
    /\ call = NoCall
    /\ LET outcome == searchOracleCards(query, limit, oracle_cards, default_cards)
       IN  \E plan \in Plans : call' = Fetched(outcome, plan, oracle_cards)
    /\ UNCHANGED <<oracle_cards, default_cards, inventory, running, scan, serverVars>>

\* tool call collection_search with a query of the set Q
CollectionSearch(Q) ==
  \E query \in Q, limit \in Limits :
    /\ call = NoCall
    /\ LET outcome == searchCollection(query, limit, oracle_cards, inventory)
       IN  \E plan \in Plans : call' = Fetched(outcome, plan, oracle_cards)
    /\ UNCHANGED <<oracle_cards, default_cards, inventory, running, scan, serverVars>>

\* ------------------------------------------------------------------------
\* Query texts
\* ------------------------------------------------------------------------

\* "A B"
AndText(a, b) == a \o <<" ">> \o b
\* "A OR B"
OrText(a, b) == a \o <<" ", "O", "R", " ">> \o b
\* "--A"
DoubleMinusText(a) == <<"-", "-">> \o a
\* "- - A"
SpacedDoubleMinusText(a) == <<"-", " ", "-", " ">> \o a
\* "(A OR B) C"
FactoredText(a, b, c) == <<"(">> \o OrText(a, b) \o <<")", " ">> \o c
\* "A C OR B C"
DistributedText(a, b, c) == OrText(AndText(a, c), AndText(b, c))

qType == <<"t", ":", "a">>
qText == <<"o", ":", "b">>
qColor == <<"c", ":", "u">>
qUnknown == <<"z", "z", "z", ":", "a">>
qNotText == <<"-", "o", ":", "b">>
qNotUnknown == <<"-", "z", "z", "z", ":", "a">>
qOr == <<"t", ":", "a", " ", "O", "R", " ", "c", ":", "u">>
qParen == <<"(", "n", ":", "a", " ", "o", "r", " ", "c", ":", "u", ")">>
qOpenQuote == <<"\"", "a">>
qPower == <<"p", "o", "w", ">", "1">>

\* the sub-queries A, B the algebraic laws are instantiated with
Atoms == {qType, qText, qColor, qUnknown, qNotText, qNotUnknown, qOr, qParen, qOpenQuote, qPower}
\* the sub-queries the three-way law is instantiated with
SmallAtoms == {qType, qText, qUnknown, qOr, qOpenQuote}

AndQueries == Atoms \cup {AndText(a, b) : a, b \in Atoms}
OrQueries == Atoms \cup {OrText(a, b) : a, b \in Atoms}
NotQueries == Atoms \cup {DoubleMinusText(a) : a \in Atoms} \cup {SpacedDoubleMinusText(a) : a \in Atoms}
DistQueries ==
  SmallAtoms \cup {FactoredText(a, b, c) : a, b, c \in SmallAtoms}
             \cup {DistributedText(a, b, c) : a, b, c \in SmallAtoms}

NextAnd == loadDataset \/ inventoryInsert \/ respond \/ OracleSearch(AndQueries) \/ CollectionSearch(AndQueries)
SpecAnd == Init /\ [][NextAnd]_vars

NextOr == loadDataset \/ inventoryInsert \/ respond \/ OracleSearch(OrQueries) \/ CollectionSearch(OrQueries)
SpecOr == Init /\ [][NextOr]_vars

NextNot == loadDataset \/ inventoryInsert \/ respond \/ OracleSearch(NotQueries) \/ CollectionSearch(NotQueries)
SpecNot == Init /\ [][NextNot]_vars

NextDist == loadDataset \/ inventoryInsert \/ respond \/ OracleSearch(DistQueries) \/ CollectionSearch(DistQueries)
SpecDist == Init /\ [][NextDist]_vars

\* ------------------------------------------------------------------------
\* Vocabulary of the properties
\* ------------------------------------------------------------------------

\* the same entry point as the recorded call, on another query, same tables
SearchAgain(query) ==
  IF call.fn = "searchCollection"
  THEN searchCollection(query, call.limit, oracle_cards, inventory)
  ELSE searchOracleCards(query, call.limit, oracle_cards, default_cards)

\* the record set of an outcome, ignoring limit truncation
RecordSet(outcome) == Range(outcome.matched)

Valid(query) == parseQuery(query).ok

Searched == call.fn # "none"

\* the query compiles to no-opinion under the recorded call's entry point
NoOpinion(query) ==
  astToCondition(parseQuery(query).node, call.fn = "searchOracleCards") = <<>>

TokenKinds(tokens) == [i \in 1..Len(tokens) |-> <<tokens[i].type, tokens[i].value>>]

\* every quoted string of the query is closed: text appended after a space
\* starts a new token
QuotesClosed(query) ==
  TokenKinds(tokenize(trim(query) \o <<" ", "x">>))
    = TokenKinds(tokenize(trim(query))) \o << <<"PLAIN_TEXT", <<"x">>>> >>

\* an OR token outside all parentheses
RECURSIVE HasTopLevelOr(_, _)
HasTopLevelOr(tokens, depth) ==
  IF tokens = <<>> THEN FALSE
  ELSE IF tokens[1].type = "LPAREN" THEN HasTopLevelOr(Tail(tokens), depth + 1)
  ELSE IF tokens[1].type = "RPAREN" THEN HasTopLevelOr(Tail(tokens), depth - 1)
  ELSE (tokens[1].type = "OR" /\ depth = 0) \/ HasTopLevelOr(Tail(tokens), depth)

TopLevelOr(query) == HasTopLevelOr(tokenize(trim(query)), 0)

\* ------------------------------------------------------------------------
\* C1
\* ------------------------------------------------------------------------

\* C1 (as stated): for all valid A and B, the records of "A B" are the
\* intersection of the records of "A" and of "B".
C1_AndIsIntersection_AllQueries ==
  \A a, b \in Atoms :
    (Searched /\ call.query = AndText(a, b) /\ Valid(a) /\ Valid(b))
      => (call.status = "ok"
          /\ RecordSet(call) = RecordSet(SearchAgain(a)) \cap RecordSet(SearchAgain(b)))

\* C1 (amended): for all valid A and B without a top-level OR, A without an
\* unterminated quoted string, and A, B both or neither no-opinion, the
\* records of "A B" are the intersection of the records of "A" and of "B".
C1_AndIsIntersection ==
  \A a, b \in Atoms :
    (/\ Searched /\ call.query = AndText(a, b) /\ Valid(a) /\ Valid(b)
     /\ QuotesClosed(a) /\ ~TopLevelOr(a) /\ ~TopLevelOr(b)
     /\ (NoOpinion(a) <=> NoOpinion(b)))
      => (call.status = "ok"
          /\ RecordSet(call) = RecordSet(SearchAgain(a)) \cap RecordSet(SearchAgain(b)))

\* an "A B" call whose result is non-empty and smaller than both operands' results
C1_Witness ==
  \E a, b \in Atoms :
    /\ Searched /\ call.query = AndText(a, b) /\ Valid(a) /\ Valid(b)
    /\ QuotesClosed(a) /\ ~TopLevelOr(a) /\ ~TopLevelOr(b)
    /\ ~NoOpinion(a) /\ ~NoOpinion(b)
    /\ RecordSet(call) # {}
    /\ RecordSet(call) # RecordSet(SearchAgain(a))
    /\ RecordSet(call) # RecordSet(SearchAgain(b))

\* ------------------------------------------------------------------------
\* C2
\* ------------------------------------------------------------------------

\* C2 (as stated): for all valid A and B, the records of "A OR B" are the
\* union of the records of "A" and of "B".
C2_OrIsUnion_AllQueries ==
  \A a, b \in Atoms :
    (Searched /\ call.query = OrText(a, b) /\ Valid(a) /\ Valid(b))
      => (call.status = "ok"
          /\ RecordSet(call) = RecordSet(SearchAgain(a)) \cup RecordSet(SearchAgain(b)))

\* C2 (amended): for all valid A and B where A has no unterminated quoted
\* string, the records of "A OR B" are the union of the records of "A" and
\* of "B" (no-opinion operands included).
C2_OrIsUnion ==
  \A a, b \in Atoms :
    (Searched /\ call.query = OrText(a, b) /\ Valid(a) /\ Valid(b) /\ QuotesClosed(a))
      => (call.status = "ok"
          /\ RecordSet(call) = RecordSet(SearchAgain(a)) \cup RecordSet(SearchAgain(b)))

\* an "A OR B" call whose result is larger than each operand's non-empty result
C2_Witness ==
  \E a, b \in Atoms :
    /\ Searched /\ call.query = OrText(a, b) /\ Valid(a) /\ Valid(b) /\ QuotesClosed(a)
    /\ RecordSet(SearchAgain(a)) # {}
    /\ RecordSet(SearchAgain(b)) # {}
    /\ RecordSet(call) # RecordSet(SearchAgain(a))
    /\ RecordSet(call) # RecordSet(SearchAgain(b))

\* ------------------------------------------------------------------------
\* C3
\* ------------------------------------------------------------------------

C4_Distributivity_AllQueries ==
  \A a, b, c \in SmallAtoms :
    (Searched /\ call.query = FactoredText(a, b, c) /\ Valid(a) /\ Valid(b) /\ Valid(c))
      => (call.status = "ok"
          /\ RecordSet(call) = RecordSet(SearchAgain(DistributedText(a, b, c))))

\* C4 (amended): for all valid A, B and C without an unterminated quoted
\* string, where A and B contain no OR outside parentheses and either C is
\* no-opinion or A and B are both or neither no-opinion, "(A OR B) C" and
\* "A C OR B C" return the same records.
C4_Distributivity ==
  \A a, b, c \in SmallAtoms :
    (/\ Searched /\ call.query = FactoredText(a, b, c) /\ Valid(a) /\ Valid(b) /\ Valid(c)
     /\ QuotesClosed(a) /\ QuotesClosed(b) /\ QuotesClosed(c)
     /\ ~TopLevelOr(a) /\ ~TopLevelOr(b)
     /\ (NoOpinion(c) \/ (NoOpinion(a) <=> NoOpinion(b))))
      => (call.status = "ok"
          /\ RecordSet(call) = RecordSet(SearchAgain(DistributedText(a, b, c))))

\* a "(A OR B) C" call over three predicates whose non-empty result is
\* smaller than the result of "A OR B" and differs from that of "A C"
C4_Witness ==
  \E a, b, c \in SmallAtoms :
    /\ Searched /\ call.query = FactoredText(a, b, c) /\ Valid(a) /\ Valid(b) /\ Valid(c)
    /\ QuotesClosed(a) /\ QuotesClosed(b) /\ QuotesClosed(c)
    /\ ~TopLevelOr(a) /\ ~TopLevelOr(b)
    /\ ~NoOpinion(a) /\ ~NoOpinion(b) /\ ~NoOpinion(c)
    /\ RecordSet(call) # {}
    /\ RecordSet(call) # RecordSet(SearchAgain(OrText(a, b)))
    /\ RecordSet(call) # RecordSet(SearchAgain(AndText(a, c)))

\* ------------------------------------------------------------------------
\* C5
\* ------------------------------------------------------------------------

qCmcWord == <<"c", "m", "c", ":", "x">>
qFormatUnknown == <<"f", ":", "z", "z", "z">>
qColorDigit == <<"c", ":", "1">>
qUnknownParen == <<"(", "z", "z", "z", ":", "a", ")">>

\* terms that compile to no-opinion (qPower only without default_cards)
NoOpinionAtoms == {qUnknown, qNotUnknown, qCmcWord, qFormatUnknown, qColorDigit, qUnknownParen, qPower}

NoOpinionQueries ==
  NoOpinionAtoms \cup {qType, qNotText}
    \cup {AndText(a, b) : a \in NoOpinionAtoms, b \in {qUnknown, qNotUnknown, qType}}
    \cup {OrText(a, b) : a \in NoOpinionAtoms, b \in {qUnknown, qNotUnknown, qType}}

NextNoOpinion ==
  loadDataset \/ inventoryInsert \/ respond
    \/ OracleSearch(NoOpinionQueries) \/ CollectionSearch(NoOpinionQueries)
SpecNoOpinion == Init /\ [][NextNoOpinion]_vars

\* C5: a search whose query parses and whose whole AST compiles to
\* no-opinion returns an empty list, from searchOracleCards and from
\* searchCollection, whatever the tables hold.
C5_NoOpinionReturnsEmpty ==
  (Searched /\ call.status = "ok" /\ call.condition = <<>>)
    => (call.matched = <<>> /\ call.rows = <<>>)

\* a no-opinion AND/OR tree searched with a positive limit over a non-empty join
C5_Witness ==
  /\ Searched /\ call.status = "ok" /\ call.condition = <<>> /\ call.limit > 0
  /\ call.query \in {AndText(a, b) : a, b \in NoOpinionAtoms} \cup {OrText(a, b) : a, b \in NoOpinionAtoms}
  /\ call.fn = "searchOracleCards"
  /\ JoinDefault(default_cards, oracle_cards) # <<>>

\* ------------------------------------------------------------------------
\* Field terms
\* ------------------------------------------------------------------------

\* the text of a field term: "field:value", or "field<op>value" with an operator
FieldText(field, operator, value) ==
  IF operator = <<>> THEN field \o <<":">> \o value ELSE field \o operator \o value

\* the documented aliases of each canonical field, with sample operators and values
AliasGroups ==
  {   [canonical |-> "name",
    aliases |-> {<<"n">>, <<"n", "a", "m", "e">>},
    samples |-> {<<<<>>, <<"a">>>>}],
   [canonical |-> "type",
    aliases |-> {<<"t">>, <<"t", "y", "p", "e">>},
    samples |-> {<<<<>>, <<"a">>>>}],
   [canonical |-> "oracle",
    aliases |-> {<<"o">>, <<"o", "r", "a", "c", "l", "e">>},
    samples |-> {<<<<>>, <<"b">>>>}],
   [canonical |-> "colors",
    aliases |-> {<<"c">>, <<"c", "o", "l", "o", "r">>, <<"c", "o", "l", "o", "r", "s">>},
    samples |-> {<<<<>>, <<"u">>>>, <<<<"<", "=">>, <<"u">>>>}],
   [canonical |-> "color_identity",
    aliases |-> {<<"c", "i">>, <<"i", "d">>, <<"i", "d", "e", "n", "t", "i", "t", "y">>, <<"c", "o", "l", "o", "r", "_", "i", "d", "e", "n", "t", "i", "t", "y">>},
    samples |-> {<<<<>>, <<"u">>>>, <<<<"<", "=">>, <<"u">>>>}],
   [canonical |-> "cmc",
    aliases |-> {<<"c", "m", "c">>, <<"m", "v">>, <<"m", "a", "n", "a", "v", "a", "l", "u", "e">>},
    samples |-> {<<<<>>, <<"1">>>>, <<<<">", "=">>, <<"2">>>>}],
   [canonical |-> "mana_cost",
    aliases |-> {<<"m">>, <<"m", "a", "n", "a">>},
    samples |-> {<<<<>>, <<"u">>>>}],
   [canonical |-> "keyword",
    aliases |-> {<<"k">>, <<"k", "w">>, <<"k", "e", "y", "w", "o", "r", "d">>},
    samples |-> {<<<<>>, <<"f", "l", "y">>>>}],
   [canonical |-> "format",
    aliases |-> {<<"f">>, <<"f", "o", "r", "m", "a", "t">>},
    samples |-> {<<<<>>, <<"m", "o", "d", "e", "r", "n">>>>}],
   [canonical |-> "banned",
    aliases |-> {<<"b", "a", "n", "n", "e", "d">>},
    samples |-> {<<<<>>, <<"m", "o", "d", "e", "r", "n">>>>}],
   [canonical |-> "restricted",
    aliases |-> {<<"r", "e", "s", "t", "r", "i", "c", "t", "e", "d">>},
    samples |-> {<<<<>>, <<"v", "i", "n", "t", "a", "g", "e">>>>}]}

AliasQueries ==
  UNION {{FieldText(f, s[1], s[2]) : f \in g.aliases, s \in g.samples} : g \in AliasGroups}

NextAlias ==
  loadDataset \/ inventoryInsert \/ respond
    \/ OracleSearch(AliasQueries) \/ CollectionSearch(AliasQueries)
SpecAlias == Init /\ [][NextAlias]_vars

ColorFields == {<<"c">>, <<"c", "i">>}
ColorOperators == {<<>>, <<"=">>, <<"<", "=">>, <<">", "=">>, <<"!", "=">>, <<"!">>}
ColorValues ==
  {<<"u">>,
   <<"U">>,
   <<"w">>,
   <<"b">>,
   <<"r">>,
   <<"g">>,
   <<"b", "l", "u", "e">>,
   <<"B", "l", "u", "e">>,
   <<"B", "L", "U", "E">>,
   <<"w", "h", "i", "t", "e">>,
   <<"b", "l", "a", "c", "k">>,
   <<"r", "e", "d">>,
   <<"g", "r", "e", "e", "n">>,
   <<"w", "u">>,
   <<"u", "w">>,
   <<"a", "z", "o", "r", "i", "u", "s">>,
   <<"c">>,
   <<"C">>,
   <<"c", "o", "l", "o", "r", "l", "e", "s", "s">>,
   <<"m">>,
   <<"m", "u", "l", "t", "i", "c", "o", "l", "o", "r">>}

ColorQueries == {FieldText(f, op, v) : f \in ColorFields, op \in ColorOperators, v \in ColorValues}

NextColors ==
  loadDataset \/ inventoryInsert \/ respond
    \/ OracleSearch(ColorQueries) \/ CollectionSearch(ColorQueries)
SpecColors == Init /\ [][NextColors]_vars

\* the joined rows the recorded call selected from
JoinedRows ==
  IF call.fn = "searchCollection" THEN JoinInventory(inventory, oracle_cards)
  ELSE JoinDefault(default_cards, oracle_cards)

\* the stored color array the field reads: <<>> when absent, else <<array>>
StoredColors(row, field) ==
  JsonColumn(row.oc, IF field = <<"c">> THEN "colors" ELSE "color_identity")

\* the result rows of the joined rows whose stored colors satisfy P
RowsWith(field, P(_)) ==
  {[oracleId |-> JoinedRows[i].oc.oracleId, setId |-> JoinedRows[i].dc.id] :
     i \in {j \in 1..Len(JoinedRows) : P(StoredColors(JoinedRows[j], field))}}

\* full color names and the single-letter code of the same color
ColorNames ==
  {[name |-> <<"b", "l", "u", "e">>, letter |-> <<"u">>],
   [name |-> <<"B", "l", "u", "e">>, letter |-> <<"u">>],
   [name |-> <<"B", "L", "U", "E">>, letter |-> <<"U">>],
   [name |-> <<"w", "h", "i", "t", "e">>, letter |-> <<"w">>],
   [name |-> <<"b", "l", "a", "c", "k">>, letter |-> <<"b">>],
   [name |-> <<"r", "e", "d">>, letter |-> <<"r">>],
   [name |-> <<"g", "r", "e", "e", "n">>, letter |-> <<"g">>]}

\* values whose target set the vocabulary fixes: letters and combination names
TargetSets ==
  {[value |-> <<"u">>, members |-> {"U"}],
   [value |-> <<"U">>, members |-> {"U"}],
   [value |-> <<"w">>, members |-> {"W"}],
   [value |-> <<"b">>, members |-> {"B"}],
   [value |-> <<"r">>, members |-> {"R"}],
   [value |-> <<"g">>, members |-> {"G"}],
   [value |-> <<"w", "u">>, members |-> {"W", "U"}],
   [value |-> <<"u", "w">>, members |-> {"W", "U"}],
   [value |-> <<"a", "z", "o", "r", "i", "u", "s">>, members |-> {"W", "U"}]}

\* ------------------------------------------------------------------------
\* C6
\* ------------------------------------------------------------------------

\* C6: a term written with any alias of a canonical field returns the same
\* records as the term written with any other alias of that field, for the
\* same operator and value.
C6_AliasesEquivalent ==
  \A g \in AliasGroups : \A f1, f2 \in g.aliases : \A s \in g.samples :
    (Searched /\ call.query = FieldText(f1, s[1], s[2]))
      => (call.status = "ok"
          /\ RecordSet(call) = RecordSet(SearchAgain(FieldText(f2, s[1], s[2]))))

\* ------------------------------------------------------------------------
\* C7
\* ------------------------------------------------------------------------

\* C7: a full color name as colors/color-identity value resolves to the
\* singleton set of that color's letter, and the term returns the same
\* records as the term with the single-letter code, under every operator.
C7_ColorNameIsLetter ==
  \A f \in ColorFields, op \in ColorOperators, n \in ColorNames :
    (Searched /\ call.query = FieldText(f, op, n.name))
      => (/\ call.status = "ok"
          /\ call.condition # <<>>
          /\ call.condition[1].colorSet = toUpperCase(n.letter)
          /\ RecordSet(call) = RecordSet(SearchAgain(FieldText(f, op, n.letter))))

\* ------------------------------------------------------------------------
\* C8
\* ------------------------------------------------------------------------

IsEmptySet(stored) == stored # <<>> /\ Range(stored[1]) = {}
IsMulticolor(stored) == stored # <<>> /\ Cardinality(Range(stored[1])) > 1

\* C8: a colors/color-identity term with value colorless or c returns
\* exactly the records whose color set is empty, and with value multicolor
\* or m exactly the records whose color set has more than one member.
C8_PseudoColors ==
  \A f \in ColorFields :
    /\ \A v \in {<<"c">>, <<"C">>, <<"c", "o", "l", "o", "r", "l", "e", "s", "s">>} :
         (Searched /\ call.query = FieldText(f, <<>>, v))
           => (call.status = "ok" /\ RecordSet(call) = RowsWith(f, IsEmptySet))
    /\ \A v \in {<<"m">>, <<"m", "u", "l", "t", "i", "c", "o", "l", "o", "r">>} :
         (Searched /\ call.query = FieldText(f, <<>>, v))
           => (call.status = "ok" /\ RecordSet(call) = RowsWith(f, IsMulticolor))

\* ------------------------------------------------------------------------
\* C9
\* ------------------------------------------------------------------------

\* C9: with operator =, a colors/color-identity term returns exactly the
\* records whose color set has the same members as the target set, in
\* whatever order the record's colors are stored.
C9_EqualIsSameMembers ==
  \A f \in ColorFields, t \in TargetSets :
    (Searched /\ call.query = FieldText(f, <<"=">>, t.value))
      => (/\ call.status = "ok"
          /\ LET SameMembers(stored) == stored # <<>> /\ Range(stored[1]) = t.members
             IN  RecordSet(call) = RowsWith(f, SameMembers))

\* ------------------------------------------------------------------------
\* C10
\* ------------------------------------------------------------------------

\* C10: with operator <=, a colors/color-identity term returns exactly the
\* records whose every color is in the target set; a record whose color set
\* is empty or absent is returned for every target.
C10_SubsetOfTarget ==
  \A f \in ColorFields, t \in TargetSets :
    (Searched /\ call.query = FieldText(f, <<"<", "=">>, t.value))
      => (/\ call.status = "ok"
          /\ LET Within(stored) == stored = <<>> \/ Range(stored[1]) \subseteq t.members
             IN  RecordSet(call) = RowsWith(f, Within))

\* a <= call that returned a record with an empty color set and one with an
\* absent color set, or returned an empty-set record and left another out
C10_Witness ==
  \E f \in ColorFields, t \in TargetSets :
    /\ Searched /\ call.query = FieldText(f, <<"<", "=">>, t.value)
    /\ \E i \in 1..Len(JoinedRows) :
         /\ StoredColors(JoinedRows[i], f) \in {<<>>, << <<>> >>}
         /\ [oracleId |-> JoinedRows[i].oc.oracleId, setId |-> JoinedRows[i].dc.id] \in RecordSet(call)
    /\ \E i \in 1..Len(JoinedRows) :
         [oracleId |-> JoinedRows[i].oc.oracleId, setId |-> JoinedRows[i].dc.id] \notin RecordSet(call)

\* ------------------------------------------------------------------------
\* C11
\* ------------------------------------------------------------------------

\* C11: with no operator, a colors/color-identity term returns exactly the
\* records whose color set shares at least one color with the target set.
C11_DefaultIsAnyOf ==
  \A f \in ColorFields, t \in TargetSets :
    (Searched /\ call.query = FieldText(f, <<>>, t.value))
      => (/\ call.status = "ok"
          /\ LET Shares(stored) == stored # <<>> /\ Range(stored[1]) \cap t.members # {}
             IN  RecordSet(call) = RowsWith(f, Shares))

\* a no-operator call with a two-color target that returned a record holding
\* only one of the two colors and left out a record with other colors
C11_Witness ==
  \E f \in ColorFields, t \in TargetSets :
    /\ Searched /\ call.query = FieldText(f, <<>>, t.value)
    /\ Cardinality(t.members) = 2
    /\ \E i \in 1..Len(JoinedRows) :
         /\ StoredColors(JoinedRows[i], f) # <<>>
         /\ Cardinality(Range(StoredColors(JoinedRows[i], f)[1]) \cap t.members) = 1
         /\ [oracleId |-> JoinedRows[i].oc.oracleId, setId |-> JoinedRows[i].dc.id] \in RecordSet(call)
    /\ \E i \in 1..Len(JoinedRows) :
         /\ StoredColors(JoinedRows[i], f) \notin {<<>>, << <<>> >>}
         /\ [oracleId |-> JoinedRows[i].oc.oracleId, setId |-> JoinedRows[i].dc.id] \notin RecordSet(call)

\* ------------------------------------------------------------------------
\* Mana-value terms
\* ------------------------------------------------------------------------

\* the colon form of a field term: "field<op>:value"
FieldColonText(field, operator, value) == field \o operator \o <<":">> \o value

CmcFields == {<<"c", "m", "c">>, <<"m", "v">>}
CmcOperators == {<<>>, <<"=">>, <<"<", "=">>, <<">", "=">>, <<"<">>, <<">">>, <<"!", "=">>, <<"!">>}
EvenValues == {<<"e", "v", "e", "n">>, <<"E", "V", "E", "N">>}
OddValues == {<<"o", "d", "d">>, <<"O", "d", "d">>}
CmcNumberValues ==
  {<<"1">>, <<"2">>, <<"-", "1">>, <<"3", "x">>, <<"1", ".", "5">>, <<"x">>}
CmcValues == EvenValues \cup OddValues \cup CmcNumberValues

CmcQueries == {FieldColonText(f, op, v) : f \in CmcFields, op \in CmcOperators, v \in CmcValues}

NextCmc ==
  loadDataset \/ inventoryInsert \/ respond
    \/ OracleSearch(CmcQueries) \/ CollectionSearch(CmcQueries)
SpecCmc == Init /\ [][NextCmc]_vars

\* the result rows of the joined rows whose oracle card satisfies P
RowsOfCards(P(_)) ==
  {[oracleId |-> JoinedRows[i].oc.oracleId, setId |-> JoinedRows[i].dc.id] :
     i \in {j \in 1..Len(JoinedRows) : P(JoinedRows[j].oc)}}

HasCmc(oc) == oc.cmc # <<>>

\* ------------------------------------------------------------------------
\* C12
\* ------------------------------------------------------------------------

\* C12: the records of an even term and of an odd term, whatever their
\* operators and letter case, are disjoint and together are exactly the
\* records whose mana value is defined.
C12_EvenOddPartition ==
  \A f1, f2 \in CmcFields, op1, op2 \in CmcOperators, e \in EvenValues, o \in OddValues :
    (Searched /\ call.query = FieldColonText(f1, op1, e))
      => LET odd == RecordSet(SearchAgain(FieldColonText(f2, op2, o)))
         IN  /\ call.status = "ok"
             /\ RecordSet(call) \cap odd = {}
             /\ RecordSet(call) \cup odd = RowsOfCards(HasCmc)

\* an even term with an operator, over rows of which some are even and some odd
C12_Witness ==
  \E f \in CmcFields, op \in CmcOperators \ {<<>>}, e \in EvenValues :
    /\ Searched /\ call.query = FieldColonText(f, op, e)
    /\ RecordSet(call) # {}
    /\ RecordSet(SearchAgain(FieldColonText(f, op, <<"o", "d", "d">>))) # {}

\* ------------------------------------------------------------------------
\* C13
\* ------------------------------------------------------------------------

\* an integer literal: an optional minus sign and decimal digits, nothing else
IsIntegerLiteral(v) ==
  LET body == IF v # <<>> /\ v[1] = "-" THEN Tail(v) ELSE v
  IN  body # <<>> /\ \A i \in 1..Len(body) : IsDigit(body[i])

IntegerLiteralValue(v) ==
  IF v[1] = "-" THEN 0 - DigitsValue(Tail(v), 0) ELSE DigitsValue(v, 0)

\* C13: a mana-value term whose value is not even/odd is no-opinion when the
\* value is not an integer literal, and otherwise returns exactly the records
\* whose mana value is defined and stands in relation OP to the value, OP
\* being the operator (= when empty).
C13_CmcComparison ==
  \A f \in CmcFields, op \in CmcOperators \ {<<"!">>}, v \in CmcNumberValues :
    (Searched /\ call.query = FieldColonText(f, op, v))
      => (/\ call.status = "ok"
          /\ IF ~IsIntegerLiteral(v) THEN call.condition = <<>>
             ELSE LET Related(oc) ==
                        /\ oc.cmc # <<>>
                        /\ Compare(IF op = <<>> THEN <<"=">> ELSE op, oc.cmc[1], IntegerLiteralValue(v))
                  IN  call.condition # <<>> /\ RecordSet(call) = RowsOfCards(Related))

\* C13 restricted to integer literals and to values with no leading digit
C13_CmcComparison_CleanValues ==
  \A f \in CmcFields, op \in CmcOperators \ {<<"!">>},
     v \in CmcNumberValues \ {<<"3", "x">>, <<"1", ".", "5">>} :
    (Searched /\ call.query = FieldColonText(f, op, v))
      => (/\ call.status = "ok"
          /\ IF ~IsIntegerLiteral(v) THEN call.condition = <<>>
             ELSE LET Related(oc) ==
                        /\ oc.cmc # <<>>
                        /\ Compare(IF op = <<>> THEN <<"=">> ELSE op, oc.cmc[1], IntegerLiteralValue(v))
                  IN  call.condition # <<>> /\ RecordSet(call) = RowsOfCards(Related))

\* ------------------------------------------------------------------------
\* Text terms
\* ------------------------------------------------------------------------

TextFields == {<<"n">>, <<"t">>, <<"o">>, <<"m">>}
PlainValues == {<<"a">>, <<"A">>, <<"b">>, <<"a", "b">>, <<"{", "u", "}">>}
WildcardValues == {<<"%">>, <<"_">>, <<"a", "_", "b">>, <<"a", "%">>}
TextValues == PlainValues \cup WildcardValues

TextQueries == TextValues \cup {FieldText(f, <<>>, v) : f \in TextFields, v \in TextValues}

NextText ==
  loadDataset \/ inventoryInsert \/ respond
    \/ OracleSearch(TextQueries) \/ CollectionSearch(TextQueries)
SpecText == Init /\ [][NextText]_vars

\* v occurs in s as a contiguous run of characters
Contains(s, v) == \E i \in 1..(Len(s) - Len(v) + 1) : SubSeq(s, i, i + Len(v) - 1) = v

\* the attribute a text field reads: <<>> when absent, else <<string>>
Attribute(oc, field) ==
  IF field = <<"n">> THEN <<oc.name>>
  ELSE IF field = <<"t">> THEN <<oc.typeLine>>
  ELSE IF field = <<"o">> THEN oc.oracleText
  ELSE oc.manaCost

AttributeContains(oc, field, v) ==
  Attribute(oc, field) # <<>> /\ Contains(toLowerCase(Attribute(oc, field)[1]), toLowerCase(v))

\* C14 for the values of the set V
SubstringLaw(V) ==
  /\ \A f \in TextFields, v \in V :
       (Searched /\ call.query = FieldText(f, <<>>, v))
         => (call.status = "ok"
             /\ RecordSet(call) = RowsOfCards(LAMBDA oc : AttributeContains(oc, f, v)))
  /\ \A v \in V :
       (Searched /\ call.query = v)
         => (call.status = "ok"
             /\ RecordSet(call) = RowsOfCards(LAMBDA oc : AttributeContains(oc, <<"n">>, v)
                                                           \/ AttributeContains(oc, <<"o">>, v)))

\* ------------------------------------------------------------------------
\* C14
\* ------------------------------------------------------------------------

\* C14: a name, type, oracle-text or mana-cost term returns exactly the
\* records whose lower-cased attribute contains the lower-cased value as a
\* literal substring, and a plain-text term those whose name or oracle text
\* does, for every value, values with % and _ included.
C14_LiteralSubstring == SubstringLaw(TextValues)

\* C14 for values without % and _
C14_LiteralSubstring_NoWildcards == SubstringLaw(PlainValues)

\* ------------------------------------------------------------------------
\* Legality terms
\* ------------------------------------------------------------------------

\* the legality fields with the status each one tests
LegalityFields ==
  {[field |-> <<"f">>, status |-> "legal"],
   [field |-> <<"f", "o", "r", "m", "a", "t">>, status |-> "legal"],
   [field |-> <<"b", "a", "n", "n", "e", "d">>, status |-> "banned"],
   [field |-> <<"r", "e", "s", "t", "r", "i", "c", "t", "e", "d">>, status |-> "restricted"]}

FormatValues ==
  {<<"m", "o", "d", "e", "r", "n">>, <<"M", "o", "d", "e", "r", "n">>,
   <<"l", "e", "g", "a", "c", "y">>, <<"V", "I", "N", "T", "A", "G", "E">>,
   <<"s", "t", "a", "n", "d", "a", "r", "d">>,
   <<"z", "z", "z">>, <<"m", "o", "d", "e", "r", "n", "'">>,
   <<"x", "'", "=", "'", "x">>, <<"m", "o", "d", "e", "r", "n", "s">>}

FormatQueries ==
  {FieldColonText(l.field, op, v) : l \in LegalityFields, op \in {<<>>, <<">", "=">>}, v \in FormatValues}

NextFormat ==
  loadDataset \/ inventoryInsert \/ respond
    \/ OracleSearch(FormatQueries) \/ CollectionSearch(FormatQueries)
SpecFormat == Init /\ [][NextFormat]_vars

\* ------------------------------------------------------------------------
\* C15
\* ------------------------------------------------------------------------

\* C15: a format, banned or restricted term is no-opinion when its
\* lower-cased value is not in the allow-list; otherwise it looks up that
\* format only and returns exactly the records whose legality for it is
\* legal, banned or restricted respectively.
C15_FormatAllowList ==
  \A l \in LegalityFields, op \in {<<>>, <<">", "=">>}, v \in FormatValues :
    (Searched /\ call.query = FieldColonText(l.field, op, v))
      => (/\ call.status = "ok"
          /\ IF toLowerCase(v) \notin Range(validFormats) THEN call.condition = <<>>
             ELSE /\ call.condition # <<>>
                  /\ call.condition[1].format = toLowerCase(v)
                  /\ LET HasStatus(oc) ==
                           /\ oc.legalities # <<>>
                           /\ Lookup(oc.legalities[1], toLowerCase(v)) = <<l.status>>
                     IN  RecordSet(call) = RowsOfCards(HasStatus))

\* a legality term with a mixed-case allow-listed value that returned a
\* record and left another one out
C15_Witness ==
  \E l \in LegalityFields, v \in FormatValues :
    /\ Searched /\ call.query = FieldColonText(l.field, <<>>, v)
    /\ v # toLowerCase(v)
    /\ RecordSet(call) # {}
    /\ RecordSet(call) # RowsOfCards(LAMBDA oc : TRUE)

\* ------------------------------------------------------------------------
\* Token sequences
\* ------------------------------------------------------------------------

MaxTokens == 3

\* one text per token kind; "t:" is a field token without a value
TokenTexts ==
  {<<"(">>, <<")">>, <<"O", "R">>, <<"-">>, <<"t", ":", "a">>, <<"t", ":">>, <<"b">>,
   <<"\"", "c", "\"">>}

RECURSIVE SpacedTexts(_)
SpacedTexts(n) ==
  IF n = 1 THEN TokenTexts
  ELSE {q \o <<" ">> \o p : q \in SpacedTexts(n - 1), p \in TokenTexts}

\* longer sequences with nested and trailing parentheses
NestedTexts ==
  {<<"(", " ", "(", " ", "b", " ", ")", " ", ")">>,
   <<"(", " ", "(", " ", "b", " ", ")">>,
   <<"(", " ", "b", " ", ")", " ", ")">>,
   <<"(", " ", "b", " ", ")", " ", "b">>,
   <<"(", " ", "b", " ", "O", "R", " ", "-", " ", "t", ":", "a", " ", ")">>,
   <<"b", " ", "O", "R", " ", "(", " ", "b">>,
   <<"-", " ", "(", " ", "b", " ", "b", " ", ")", " ", "O", "R">>}

ParseQueries == NestedTexts \cup UNION {SpacedTexts(n) : n \in 1..MaxTokens}

NextParse == respond \/ OracleSearch(ParseQueries) \/ CollectionSearch(ParseQueries)
SpecParse == Init /\ [][NextParse]_vars

\* the text of a field token has the form <field><operator?>:<value>
WellFormedField(text) ==
  \E p \in 2..(Len(text) - 1) :
    /\ text[p] = ":"
    /\ \E q \in 2..p :
         /\ \A i \in 1..(q - 1) : IsLetter(text[i])
         /\ \A i \in q..(p - 1) : text[i] \in {"<", ">", "=", "!"}

\* the tokens i..j-1 are derived from the nonterminal nt of the grammar
\* Or -> And (OR And)*, And -> Not Not*, Not -> NOT Not | Term,
\* Term -> ( Or ) | field | text
RECURSIVE Derives(_, _, _, _)
Derives(nt, toks, i, j) ==
  IF nt = "Term"
  THEN \/ /\ j = i + 1
          /\ \/ toks[i].type \in {"PLAIN_TEXT", "QUOTED_STRING"}
             \/ toks[i].type = "FIELD" /\ WellFormedField(toks[i].value)
       \/ /\ j >= i + 3
          /\ toks[i].type = "LPAREN" /\ toks[j - 1].type = "RPAREN"
          /\ Derives("Or", toks, i + 1, j - 1)
  ELSE IF nt = "Not"
  THEN \/ Derives("Term", toks, i, j)
       \/ j >= i + 2 /\ toks[i].type = "NOT" /\ Derives("Not", toks, i + 1, j)
  ELSE IF nt = "And"
  THEN \/ Derives("Not", toks, i, j)
       \/ \E k \in (i + 1)..(j - 1) : Derives("And", toks, i, k) /\ Derives("Not", toks, k, j)
  ELSE \/ Derives("And", toks, i, j)
       \/ \E k \in (i + 1)..(j - 2) :
            Derives("Or", toks, i, k) /\ toks[k].type = "OR" /\ Derives("And", toks, k + 1, j)

InGrammar(toks) == toks # <<>> /\ Derives("Or", toks, 1, Len(toks) + 1)

\* ------------------------------------------------------------------------
\* C16
\* ------------------------------------------------------------------------

\* C16: parsing succeeds exactly for the token sequences the grammar
\* Or -> And -> Not -> Term generates; an unmatched parenthesis, tokens left
\* over, a malformed field token or a NOT without operand raise an error and
\* give no AST.
C16_ParseAcceptsGrammar ==
  (Searched /\ call.query \in ParseQueries)
    => /\ (call.status = "ok") <=> InGrammar(tokenize(trim(call.query)))
       /\ (call.status = "error") => (call.error # "none" /\ call.condition = <<>> /\ call.rows = <<>>)
       /\ (call.status = "ok") => parseQuery(call.query).index = Len(tokenize(trim(call.query)))

\* a query whose first tokens form an expression and whose last token is
\* left over, rejected for that
C16_Witness ==
  /\ Searched /\ call.query \in SpacedTexts(MaxTokens)
  /\ call.status = "error"
  /\ call.error = "Unexpected token at position"
  /\ InGrammar(SubSeq(tokenize(trim(call.query)), 1, MaxTokens - 1))

\* ------------------------------------------------------------------------
\* C17
\* ------------------------------------------------------------------------

\* field terms with unknown fields, unreadable numbers, unknown formats and
\* color values made of arbitrary characters
DegradeValues ==
  {<<"x">>, <<"1">>, <<"*">>, <<"'">>, <<"u", "'">>, <<"u", "\"">>, <<"z", "z", "z">>,
   <<"c", "o", "n", "s", "t", "r", "u", "c", "t", "o", "r">>}
DegradeFields ==
  {<<"z", "z", "z">>, <<"c", "o", "n", "s", "t", "r", "u", "c", "t", "o", "r">>,
   <<"c", "m", "c">>, <<"c">>, <<"c", "i">>, <<"f">>, <<"p", "o", "w">>}
DegradeOperators == {<<>>, <<"<", "=">>, <<">", "=">>, <<"<", ">">>}

DegradeQueries ==
  {FieldColonText(f, op, v) : f \in DegradeFields, op \in DegradeOperators, v \in DegradeValues}

NextDegrade ==
  loadDataset \/ inventoryInsert \/ respond
    \/ OracleSearch(DegradeQueries) \/ CollectionSearch(DegradeQueries)
SpecDegrade == Init /\ [][NextDegrade]_vars

\* C17: a search whose query tokenizes and parses does not fail: whatever
\* the field name, operator and value, the term compiles to no-opinion or to
\* a predicate that runs.
C17_FailsOnlyOnParse ==
  (Searched /\ Valid(call.query)) => call.status = "ok"

\* C17 without the quote character and without inherited keys as color values
C17_FailsOnlyOnParse_PlainColors ==
  (/\ Searched /\ Valid(call.query)
   /\ \A f \in {<<"c">>, <<"c", "i">>}, op \in DegradeOperators :
        call.query \notin {FieldColonText(f, op, v) :
                             v \in {<<"'">>, <<"u", "'">>,
                                    <<"c", "o", "n", "s", "t", "r", "u", "c", "t", "o", "r">>}})
    => call.status = "ok"

\* ------------------------------------------------------------------------
\* Result lists
\* ------------------------------------------------------------------------

qCmcAny == <<"c", "m", "c", ">", "=", "0">>
qBlueOrBlack == <<"c", ":", "u", "b">>

LimitQueries == {qType, qText, qColor, qPower, qOr, qNotText, qCmcAny, qBlueOrBlack, qUnknown}

NextLimit ==
  loadDataset \/ inventoryInsert \/ respond
    \/ OracleSearch(LimitQueries) \/ CollectionSearch(LimitQueries)
SpecLimit == Init /\ [][NextLimit]_vars

\* the joined rows in the enumeration order of the FROM table, as result rows
CorpusRows ==
  [i \in 1..Len(JoinedRows) |->
     [oracleId |-> JoinedRows[i].oc.oracleId, setId |-> JoinedRows[i].dc.id]]

\* s keeps the order of t: s is t with some elements left out
RECURSIVE IsSubsequence(_, _)
IsSubsequence(s, t) ==
  IF s = <<>> THEN TRUE
  ELSE IF t = <<>> THEN FALSE
  ELSE IF s[1] = t[1] THEN IsSubsequence(Tail(s), Tail(t))
  ELSE IsSubsequence(s, Tail(t))

\* the rows of the corpus on which the call's predicate is true
Satisfying ==
  {CorpusRows[i] : i \in {j \in 1..Len(JoinedRows) :
      Eval(call.condition[1], JoinedRows[j].oc, JoinedRows[j].dc) = "T"}}

\* at most limit rows, each satisfying the predicate, all of them when the
\* limit allows
BoundedAndSound ==
  /\ Len(call.rows) <= call.limit
  /\ Range(call.rows) \subseteq Satisfying
  /\ (call.limit >= Cardinality(Satisfying)) => Range(call.rows) = Satisfying

\* ------------------------------------------------------------------------
\* C18
\* ------------------------------------------------------------------------

\* C18: a search whose query compiles to a predicate returns at most limit
\* records, each satisfying the predicate, in the enumeration order of the
\* corpus, and all matching records when the limit is not below their number.
C18_FilterOrderLimit ==
  (Searched /\ call.status = "ok" /\ call.condition # <<>>)
    => (BoundedAndSound /\ IsSubsequence(call.rows, CorpusRows))

\* C18 without the order of the returned records
C18_FilterLimit_AnyOrder ==
  (Searched /\ call.status = "ok" /\ call.condition # <<>>) => BoundedAndSound

\* ------------------------------------------------------------------------
\* C19
\* ------------------------------------------------------------------------

\* C19: searchOracleCards returns at most one row per oracle card, also for
\* a card with several printings in default_cards.
C19_OneRowPerCard ==
  (Searched /\ call.fn = "searchOracleCards" /\ call.status = "ok")
    => \A i, j \in 1..Len(call.rows) :
         call.rows[i].oracleId = call.rows[j].oracleId => i = j

\* ------------------------------------------------------------------------
\* C20
\* ------------------------------------------------------------------------

ComparisonFields ==
  {<<"c", "m", "c">>, <<"m", "v">>, <<"c">>, <<"c", "i">>, <<"p", "o", "w">>}
ComparisonOperators ==
  {<<"<", "=">>, <<">", "=">>, <<"=">>, <<">">>, <<"!", "=">>, <<"<", ">">>}
ComparisonValues ==
  {<<"1">>, <<"3">>, <<"W">>, <<"a", "z", "o", "r", "i", "u", "s">>, <<"t", "o", "u">>}

\* the comparisons written without a colon
NoColonQueries ==
  {f \o op \o v : f \in ComparisonFields, op \in ComparisonOperators, v \in ComparisonValues}

NextNoColon ==
  loadDataset \/ inventoryInsert \/ respond
    \/ OracleSearch(NoColonQueries) \/ CollectionSearch(NoColonQueries)
SpecNoColon == Init /\ [][NextNoColon]_vars

\* C20: a comparison written without a colon, <field><op><value> with an
\* alphanumeric value, is read as one field term and returns the records of
\* the colon form <field><op>:<value>.
C20_NoColonIsColonForm ==
  \A f \in ComparisonFields, op \in ComparisonOperators, v \in ComparisonValues :
    (Searched /\ call.query = f \o op \o v)
      => (/\ call.status = "ok"
          /\ TokenKinds(tokenize(call.query)) = << <<"FIELD", f \o op \o <<":">> \o v>> >>
          /\ call.condition = SearchAgain(FieldColonText(f, op, v)).condition
          /\ RecordSet(call) = RecordSet(SearchAgain(FieldColonText(f, op, v))))

\* a comparison without colon and with a letter value that returned some
\* records and left others out
C20_Witness ==
  \E f \in ComparisonFields, op \in ComparisonOperators, v \in ComparisonValues :
    /\ Searched /\ call.query = f \o op \o v
    /\ IsLetter(v[1])
    /\ RecordSet(call) # {}
    /\ RecordSet(call) # Range(CorpusRows)

\* ------------------------------------------------------------------------
\* HTTP transport: runHttpServer (index.ts 350-535)
\* ------------------------------------------------------------------------

\* transports the server creates in one run, and handlers in flight at once
MaxSessions == 2
MaxInflight == 2

\* values of the mcp-session-id header: absent, or an id
Headers == {<<>>} \cup {<<n>> : n \in 1..MaxSessions}

\* Map.has / Map.get / Map.set / Map.delete on the session map; the map keeps
\* insertion order and Map.set on a present key replaces its value in place
has(map, sid) == \E i \in 1..Len(map) : map[i].sid = sid
get(map, sid) == (CHOOSE i \in 1..Len(map) : map[i].sid = sid)
set(map, sid, t) ==
  IF has(map, sid)
  THEN [i \in 1..Len(map) |-> IF map[i].sid = sid THEN [sid |-> sid, transport |-> t] ELSE map[i]]
  ELSE Append(map, [sid |-> sid, transport |-> t])
delete(map, sid) == SelectSeq(map, LAMBDA e : e.sid # sid)
keys(map) == {map[i].sid : i \in 1..Len(map)}

\* the session ids generated so far
Generated(ts) == {ts[t].sessionId[1] : t \in {u \in 1..Len(ts) : ts[u].sessionId # <<>>}}

\* sessionIdGenerator: randomUUID() is an id no transport was given before
randomUUID_Constant(ts) == 1
randomUUID(ts) == Cardinality(Generated(ts)) + 1

\* new StreamableHTTPServerTransport(...): no session id until initialized
newTransport == [sessionId |-> <<>>, closed |-> FALSE]

\* onsessioninitialized: (sid) => transports.set(sid, newTransport)
onsessioninitialized(map, sid, t) == set(map, sid, t)

\* onsessionclosed: (sid) => transports.delete(sid)
onsessionclosed(map, sid) == delete(map, sid)

\* newTransport.onclose: remove the transport's session id if it is registered
onclose_Ignored(map, transport) == map
onclose(map, transport) ==
  IF transport.sessionId # <<>> /\ has(map, transport.sessionId[1])
  THEN delete(map, transport.sessionId[1])
  ELSE map

\* transport.close(): the transport is closed, then its onclose runs
close(ts, t) == [ts EXCEPT ![t].closed = TRUE]

\* the branch mcpPostHandler takes
postBranch_MissingAsUnknown(init, header, map) ==
  IF init THEN "initialize"
  ELSE IF header # <<>> /\ has(map, header[1]) THEN "existing"
  ELSE "unknown"
postBranch(init, header, map) ==
  IF init THEN "initialize"
  ELSE IF header # <<>> /\ has(map, header[1]) THEN "existing"
  ELSE IF header # <<>> /\ ~has(map, header[1]) THEN "unknown"
  ELSE "none"

\* a request express has accepted, its handler not yet run
Arrived(verb, init, header) ==
  [at |-> "arrived", verb |-> verb, init |-> init, header |-> header, transport |-> 0]

Requests ==
  {Arrived("POST", init, header) : init \in BOOLEAN, header \in Headers}
    \cup {Arrived(verb, FALSE, header) : verb \in {"GET", "DELETE"}, header \in Headers}

Reply(r, status, code, t) ==
  [verb |-> r.verb, init |-> r.init, session |-> r.header, status |-> status, code |-> code,
   transport |-> t]

\* app.post / app.get / app.delete: a request arrives while the server listens
receive ==
  \E r \in Requests :
    /\ process # "exited"
    /\ Cardinality(inflight) < MaxInflight
    /\ r \notin inflight
    /\ inflight' = inflight \cup {r}
    /\ UNCHANGED <<tableVars, scan, running, transports, created, process, reply>>

\* createNewSession up to its await server.connect(newTransport)
createNewSession(r) ==
  /\ Len(created) < MaxSessions
  /\ created' = Append(created, newTransport)
  /\ inflight' = (inflight \ {r}) \cup {[r EXCEPT !.at = "connect", !.transport = Len(created) + 1]}
  /\ UNCHANGED <<transports, reply>>

\* transport.handleRequest on a registered session's transport
dispatch(r) ==
  /\ reply' = Reply(r, 200, 0, transports[get(transports, r.header[1])].transport)
  /\ inflight' = inflight \ {r}
  /\ UNCHANGED <<transports, created>>

\* res.status(400): the request is refused
refuse(r, code) ==
  /\ reply' = Reply(r, 400, code, 0)
  /\ inflight' = inflight \ {r}
  /\ UNCHANGED <<transports, created>>

\* mcpPostHandler, from its entry to its first await or its reply
mcpPostHandlerBranch(r, branch) ==
  IF branch \in {"initialize", "unknown"} THEN createNewSession(r)
  ELSE IF branch = "existing" THEN dispatch(r)
  ELSE refuse(r, -32000)

mcpPostHandler ==
  \E r \in inflight :
    /\ r.at = "arrived" /\ r.verb = "POST"
    /\ mcpPostHandlerBranch(r, postBranch(r.init, r.header, transports))
    /\ UNCHANGED <<tableVars, scan, running, process>>

\* mcpPostHandler after await server.connect: transport.handleRequest.  An
\* initialize request makes the transport generate its session id and call
\* onsessioninitialized; any other request leaves it without a session.
handleRequest ==
  \E r \in inflight :
    /\ r.at = "connect"
    /\ inflight' = inflight \ {r}
    /\ IF r.init
       THEN LET sid == randomUUID(created)
            IN  /\ created' = [created EXCEPT ![r.transport].sessionId = <<sid>>]
                /\ transports' = onsessioninitialized(transports, sid, r.transport)
                /\ reply' = [Reply(r, 200, 0, r.transport) EXCEPT !.session = <<sid>>]
       ELSE /\ reply' = Reply(r, 400, 0, r.transport)
            /\ UNCHANGED <<transports, created>>
    /\ UNCHANGED <<tableVars, scan, running, process>>

\* mcpGetHandler
mcpGetHandler ==
  \E r \in inflight :
    /\ r.at = "arrived" /\ r.verb = "GET"
    /\ IF r.header = <<>> \/ ~has(transports, r.header[1])
       THEN refuse(r, 0)
       ELSE dispatch(r)
    /\ UNCHANGED <<tableVars, scan, running, process>>

\* mcpDeleteHandler: the transport ends its session, calling onsessionclosed
\* and then close(), whose onclose finds the id already removed
mcpDeleteHandler ==
  \E r \in inflight :
    /\ r.at = "arrived" /\ r.verb = "DELETE"
    /\ IF r.header = <<>> \/ ~has(transports, r.header[1])
       THEN refuse(r, 0)
       ELSE LET t == transports[get(transports, r.header[1])].transport
            IN  /\ created' = close(created, t)
                /\ transports' = onclose(onsessionclosed(transports, r.header[1]), created[t])
                /\ reply' = Reply(r, 200, 0, t)
                /\ inflight' = inflight \ {r}
    /\ UNCHANGED <<tableVars, scan, running, process>>

\* process.on("SIGINT"): the shutdown loop starts
sigint ==
  /\ process = "listening"
  /\ process' = "stopping"
  /\ UNCHANGED <<tableVars, scan, running, transports, created, inflight, reply>>

Closing == {r \in inflight : r.at = "closing"}

\* one turn of the loop up to its await: transport.close(), whose onclose runs
\* before close() returns.  The iterator of transports.entries() is at the
\* first entry left, every entry before it having been deleted.
sigintClose ==
  /\ process = "stopping"
  /\ Closing = {}
  /\ transports # <<>>
  /\ LET e == transports[1]
     IN  /\ created' = close(created, e.transport)
         /\ transports' = onclose(transports, created[e.transport])
         /\ inflight' = inflight \cup
              {[at |-> "closing", verb |-> "SIGINT", init |-> FALSE,
                header |-> <<e.sid>>, transport |-> e.transport]}
  /\ UNCHANGED <<tableVars, scan, running, process, reply>>

\* the loop after the await: transports.delete(sessionId)
sigintDelete ==
  \E r \in Closing :
    /\ transports' = delete(transports, r.header[1])
    /\ inflight' = inflight \ {r}
    /\ UNCHANGED <<tableVars, scan, running, created, process, reply>>

\* process.exit(0) after the loop
sigintExit ==
  /\ process = "stopping"
  /\ Closing = {}
  /\ transports = <<>>
  /\ process' = "exited"
  /\ UNCHANGED <<tableVars, scan, running, transports, created, inflight, reply>>

NextHttp ==
  receive \/ mcpPostHandler \/ handleRequest \/ mcpGetHandler \/ mcpDeleteHandler
    \/ sigint \/ sigintClose \/ sigintDelete \/ sigintExit

SpecHttp == Init /\ [][NextHttp]_vars

\* ------------------------------------------------------------------------
\* C21
\* ------------------------------------------------------------------------

\* the transports that were given a session id and were not closed
Open == {t \in 1..Len(created) : created[t].sessionId # <<>> /\ ~created[t].closed}

\* C21: in every reachable state the keys of the transports map are exactly
\* the ids of the sessions that were initialized and not yet closed, each
\* mapped to its own transport; a transport closed by DELETE, by its onclose
\* callback or by the SIGINT loop has its id removed.
C21_MapIsOpenSessions ==
  /\ keys(transports) = {created[t].sessionId[1] : t \in Open}
  /\ \A i \in 1..Len(transports) :
       created[transports[i].transport].sessionId = <<transports[i].sid>>

\* the shutdown loop has closed one session while another is still registered
C21_Witness ==
  /\ process = "stopping"
  /\ \E t \in 1..Len(created) : created[t].closed
  /\ transports # <<>>

\* ------------------------------------------------------------------------
\* C29
\* ------------------------------------------------------------------------

\* the handler of the arrived request r runs in this step
Handled(r) == r \in inflight /\ r.verb # "SIGINT" /\ r \notin inflight'

Registered(r) == r.header # <<>> /\ has(transports, r.header[1])

\* a non-initialize POST with no session id header, or a GET or DELETE whose
\* session id is missing or not registered
Refusable(r) ==
  /\ r.at = "arrived"
  /\ \/ r.verb = "POST" /\ ~r.init /\ r.header = <<>>
     \/ r.verb \in {"GET", "DELETE"} /\ ~Registered(r)

\* C29: a non-initialize POST without a session id header is answered with
\* HTTP 400 and JSON-RPC error code -32000, a GET or DELETE whose session id
\* is missing or not registered with HTTP 400; neither creates a server or
\* transport and both leave the transports map unchanged.
C29_RefusalChangesNothing ==
  [][\A r \in Requests :
       (Handled(r) /\ Refusable(r))
         => /\ reply'.verb = r.verb /\ reply'.session = r.header
            /\ reply'.status = 400
            /\ (r.verb = "POST" => reply'.code = -32000)
            /\ created' = created
            /\ transports' = transports
            /\ inflight' = inflight \ {r}]_vars

\* a session is registered and a POST without header was just refused
C29_Witness ==
  /\ reply.verb = "POST" /\ ~reply.init /\ reply.session = <<>>
  /\ reply.status = 400 /\ reply.code = -32000
  /\ transports # <<>>

\* ------------------------------------------------------------------------
\* C30
\* ------------------------------------------------------------------------

EntryOf(map, sid) == map[get(map, sid)].transport

\* the entry of sid is neither removed nor replaced by this step
Kept(sid) == has(transports', sid) /\ EntryOf(transports', sid) = EntryOf(transports, sid)

\* C30: under any interleaving, a non-initialize POST, a GET or a DELETE that
\* carries a registered session id goes to the transport registered under
\* that id and creates no session; an initialize request registers an id
\* that no registered or earlier session has; and handling a request never
\* removes or replaces the entry of another session id.
C30_SessionsIsolated ==
  [][\A r \in inflight :
       Handled(r) =>
         /\ (r.at = "arrived" /\ ~r.init /\ Registered(r))
              => /\ reply'.transport = EntryOf(transports, r.header[1])
                 /\ Len(created') = Len(created)
         /\ (r.at = "connect" /\ r.init)
              => \E sid \in keys(transports') \ (keys(transports) \cup Generated(created)) :
                   /\ EntryOf(transports', sid) = r.transport
                   /\ keys(transports') = keys(transports) \cup {sid}
                   /\ \A other \in keys(transports) : Kept(other)
         /\ \A other \in keys(transports) : (r.header # <<other>>) => Kept(other)]_vars

\* two sessions are registered, another handler is in flight, and a request
\* for the second session was just given to the second session's transport
C30_Witness ==
  /\ Len(transports) = 2
  /\ inflight # {}
  /\ ~reply.init /\ reply.status = 200
  /\ reply.session = <<transports[2].sid>>
  /\ reply.transport = transports[2].transport

\* ------------------------------------------------------------------------
\* Concurrent invocations: searchOracleCards / searchCollection suspended at
\* their await of the database (search.ts 1005, 1119)
\* ------------------------------------------------------------------------

\* invocations in flight at once
MaxRunning == 2

qUnclosed == <<"(", "t", ":", "a">>
RunQueries == {qType, qColor, qUnclosed}
EntryPoints == {"searchOracleCards", "searchCollection"}

\* the locals of one invocation when it reaches its await: query and limit,
\* the tokens and AST of parseQuery, the condition of astToCondition
Started(fn, query, limit, tokens, ast) ==
  [fn |-> fn, query |-> query, limit |-> limit, tokens |-> tokens, ast |-> ast,
   condition |-> IF ast.ok THEN astToCondition(ast.node, fn = "searchOracleCards") ELSE <<>>,
   at |-> "await", outcome |-> NoCall]

\* the frame whose locals invocation i reads after its await
frame_LastStarted(frames, i) == frames[Len(frames)]
frame(frames, i) == frames[i]

\* the invocation from the statement it awaits to its return value
Settled(f, ocs, dcs, invs) ==
  IF ~f.ast.ok THEN Outcome(f.fn, f.query, f.limit, f.ast, <<>>, <<>>)
  ELSE IF f.fn = "searchOracleCards"
  THEN searchOracleCardsExecute(f.query, f.limit, f.ast, f.condition, ocs, dcs)
  ELSE searchCollectionExecute(f.query, f.limit, f.ast, f.condition, ocs, invs)

\* a tool call enters searchOracleCards or searchCollection and runs to its await
invoke ==
  \E fn \in EntryPoints, query \in RunQueries :
    /\ Len(running) < MaxRunning
    /\ running' = Append(running,
         Started(fn, query, MaxLimit, tokenize(trim(query)), parseQuery(query)))
    /\ UNCHANGED <<tableVars, scan, serverVars>>

\* the database answers invocation i, which runs to its return
settle ==
  \E i \in 1..Len(running), plan \in Plans :
    /\ running[i].at = "await"
    /\ LET outcome == Settled(frame(running, i), oracle_cards, default_cards, inventory)
       IN  running' = [running EXCEPT ![i].at = "done",
                                      ![i].outcome = Fetched(outcome, plan, oracle_cards)]
    /\ UNCHANGED <<tableVars, scan, serverVars>>

\* the tool handlers have sent the results of the finished invocations
collect ==
  /\ running # <<>>
  /\ \A i \in 1..Len(running) : running[i].at = "done"
  /\ running' = <<>>
  /\ UNCHANGED <<tableVars, scan, serverVars>>

\* the tables are loaded while no invocation is in flight: one corpus snapshot
NextRun ==
  (running = <<>> /\ loadDataset) \/ (running = <<>> /\ inventoryInsert)
    \/ invoke \/ settle \/ collect

SpecRun == Init /\ [][NextRun]_vars

\* the results the invocation of frame f can return when it runs alone
Alone(f) ==
  LET outcome == IF f.fn = "searchOracleCards"
                 THEN searchOracleCards(f.query, f.limit, oracle_cards, default_cards)
                 ELSE searchCollection(f.query, f.limit, oracle_cards, inventory)
  IN  {Fetched(outcome, plan, oracle_cards) : plan \in Plans}

PredicateAtoms == {qType, qColor, qNotText}
IdentityAtoms == PredicateAtoms \cup {qUnknown, qNotUnknown, qCmcWord, qUnknownParen, qPower}

\* "(A B) C", "(A OR B) C", "(A B) OR C", "(A OR B) OR C"
NestedText(inner, outer, a, b, c) ==
  LET group == <<"(">> \o (IF inner = "and" THEN AndText(a, b) ELSE OrText(a, b)) \o <<")">>
  IN  IF outer = "and" THEN AndText(group, c) ELSE OrText(group, c)

Connectives == {"and", "or"}

IdentityQueries ==
  IdentityAtoms
    \cup {AndText(a, b) : a, b \in IdentityAtoms}
    \cup {OrText(a, b) : a, b \in IdentityAtoms}
    \cup {NestedText(inner, outer, a, b, c) :
            inner, outer \in Connectives, a \in {qUnknown, qType}, b \in {qCmcWord, qColor},
            c \in {qNotUnknown, qNotText}}

NextIdentity ==
  loadDataset \/ inventoryInsert \/ respond
    \/ OracleSearch(IdentityQueries) \/ CollectionSearch(IdentityQueries)
SpecIdentity == Init /\ [][NextIdentity]_vars

\* the condition the query compiles to under the recorded call's entry point
ConditionOf(query) == astToCondition(parseQuery(query).node, call.fn = "searchOracleCards")

\* the rule: a no-opinion side yields the other side, else the connective
Joined(k, left, right) ==
  IF left = <<>> THEN right
  ELSE IF right = <<>> THEN left
  ELSE <<[k |-> k, left |-> left[1], right |-> right[1]]>>

\* C23: And(l, r) and Or(l, r) with exactly one no-opinion side compile to
\* exactly the other side's predicate, and to no-opinion iff both sides are
\* no-opinion, at the top level and inside a group; the query then matches
\* the same records as the other side alone.
C23_NoOpinionIsIdentity ==
  /\ \A k \in Connectives, a, b \in IdentityAtoms :
       (Searched /\ call.query = (IF k = "and" THEN AndText(a, b) ELSE OrText(a, b)))
         => /\ call.status = "ok"
            /\ call.condition = Joined(k, ConditionOf(a), ConditionOf(b))
            /\ (call.condition = <<>>) <=> (NoOpinion(a) /\ NoOpinion(b))
            /\ (NoOpinion(a) /\ ~NoOpinion(b))
                 => (call.condition = ConditionOf(b)
                     /\ RecordSet(call) = RecordSet(SearchAgain(b)))
            /\ (NoOpinion(b) /\ ~NoOpinion(a))
                 => (call.condition = ConditionOf(a)
                     /\ RecordSet(call) = RecordSet(SearchAgain(a)))
  /\ \A inner, outer \in Connectives, a \in {qUnknown, qType}, b \in {qCmcWord, qColor},
        c \in {qNotUnknown, qNotText} :
       (Searched /\ call.query = NestedText(inner, outer, a, b, c))
         => /\ call.status = "ok"
            /\ call.condition = Joined(outer, Joined(inner, ConditionOf(a), ConditionOf(b)),
                                       ConditionOf(c))

\* "zzz:a t:a" or "zzz:a OR t:a" searched over rows of which t:a matches
\* some and not all
C23_Witness ==
  /\ Searched
  /\ call.query \in {AndText(qUnknown, qType), OrText(qUnknown, qType)}
  /\ RecordSet(call) # {}
  /\ RecordSet(call) # RecordSet(SearchAgain(qUnknownParen)) 
  /\ Len(call.matched) < Len(IF call.fn = "searchOracleCards"
                             THEN JoinDefault(default_cards, oracle_cards)
                             ELSE JoinInventory(inventory, oracle_cards))

\* ------------------------------------------------------------------------
\* C24
\* ------------------------------------------------------------------------

qCmcOne == <<"c", "m", "c", ":", "1">>
qMana == <<"m", ":", "u">>

\* terms over a required attribute (type line), over optional attributes
\* (oracle text, colors, mana value, mana cost), and a no-opinion term
NegationAtoms == {qType, qText, qColor, qCmcOne, qMana, qUnknown}

NotText(a) == <<"-">> \o a

NegationQueries == NegationAtoms \cup {NotText(a) : a \in NegationAtoms}

NextNegation ==
  loadDataset \/ inventoryInsert \/ respond
    \/ OracleSearch(NegationQueries) \/ CollectionSearch(NegationQueries)
SpecNegation == Init /\ [][NextNegation]_vars

AnyCard(oc) == TRUE

\* every optional attribute of the card is present
AllPresent(oc) ==
  oc.oracleText # <<>> /\ oc.manaCost # <<>> /\ oc.cmc # <<>> /\ oc.colors # <<>>

\* C24: for every term x that compiles to a predicate and every record,
\* records with absent optional attributes included, "-x" matches the record
\* iff x does not; and "-x" is no-opinion iff x is no-opinion.
C24_NotIsNegation ==
  \A x \in NegationAtoms :
    (Searched /\ call.query = NotText(x))
      => /\ call.status = "ok"
         /\ (call.condition = <<>>) <=> NoOpinion(x)
         /\ ~NoOpinion(x)
              => RecordSet(call) = RowsOfCards(AnyCard) \ RecordSet(SearchAgain(x))

\* the same over the records whose optional attributes are all present
C24_NotIsNegation_PresentAttributes ==
  \A x \in NegationAtoms :
    (Searched /\ call.query = NotText(x))
      => /\ call.status = "ok"
         /\ (call.condition = <<>>) <=> NoOpinion(x)
         /\ ~NoOpinion(x)
              => /\ RecordSet(call) \cap RecordSet(SearchAgain(x)) = {}
                 /\ RecordSet(call) \cap RowsOfCards(AllPresent)
                      = RowsOfCards(AllPresent) \ RecordSet(SearchAgain(x))

\* ------------------------------------------------------------------------
\* C25
\* ------------------------------------------------------------------------

PrecedenceTokenTexts == {<<"(">>, <<")">>, <<"O", "R">>, <<"-">>, <<"a">>, <<"t", ":", "a">>}

RECURSIVE PrecedenceTexts(_)
PrecedenceTexts(n) ==
  IF n = 1 THEN PrecedenceTokenTexts
  ELSE {q \o <<" ">> \o p : q \in PrecedenceTexts(n - 1), p \in PrecedenceTokenTexts}

\* "a b OR -c d" and "a OR b OR c"
qMixed == <<"a", " ", "b", " ", "O", "R", " ", "-", "c", " ", "d">>
qOrChain == <<"a", " ", "O", "R", " ", "b", " ", "O", "R", " ", "c">>

LongTexts ==
  {qMixed, qOrChain,
   <<"a", " ", "b", " ", "c", " ", "d">>,
   <<"-", "-", "a", " ", "b">>,
   <<"-", "(", "a", " ", "O", "R", " ", "b", ")", " ", "c">>,
   <<"(", "a", " ", "O", "R", " ", "b", ")", " ", "c", " ", "O", "R", " ", "d">>,
   <<"a", " ", "O", "R", " ", "b", " ", "c">>,
   <<"a", " ", "O", "R", " ", "(", "b", " ", "O", "R", " ", "c", ")">>,
   <<"-", "a", " ", "O", "R", " ", "-", " ", "-", "b", " ", "c">>}

PrecedenceQueries == LongTexts \cup UNION {PrecedenceTexts(n) : n \in 1..MaxTokens}

NextPrecedence ==
  respond \/ OracleSearch(PrecedenceQueries) \/ CollectionSearch(PrecedenceQueries)
SpecPrecedence == Init /\ [][NextPrecedence]_vars

\* the node of a field or text token
Leaf(token) ==
  IF token.type = "FIELD"
  THEN LET match == fieldSyntaxMatch(token.value)
       IN  [type |-> "FIELD", field |-> toLowerCase(match.field),
            operator |-> match.operator, value |-> match.value]
  ELSE [type |-> "PLAIN_TEXT", value |-> token.value]

\* the trees of the tokens i..j-1 under the grammar whose shape is the
\* precedence: Or -> Or OR And | And (OR lowest, chained to the left),
\* And -> And Not | Not (adjacency next, chained to the left),
\* Not -> NOT Not | Term (NOT on the one following Not or Term),
\* Term -> ( Or ) | field | text (a group is one term)
RECURSIVE Trees(_, _, _, _)
Trees(nt, toks, i, j) ==
  IF j <= i THEN {}
  ELSE IF nt = "Term"
  THEN IF j = i + 1
       THEN IF toks[i].type \in {"PLAIN_TEXT", "QUOTED_STRING"}
               \/ (toks[i].type = "FIELD" /\ WellFormedField(toks[i].value))
            THEN {Leaf(toks[i])} ELSE {}
       ELSE IF toks[i].type = "LPAREN" /\ toks[j - 1].type = "RPAREN"
       THEN Trees("Or", toks, i + 1, j - 1) ELSE {}
  ELSE IF nt = "Not"
  THEN Trees("Term", toks, i, j)
         \cup (IF toks[i].type = "NOT"
               THEN {[type |-> "NOT", operand |-> t] : t \in Trees("Not", toks, i + 1, j)}
               ELSE {})
  ELSE IF nt = "And"
  THEN Trees("Not", toks, i, j)
         \cup UNION {{[type |-> "AND", left |-> l, right |-> r] :
                        l \in Trees("And", toks, i, k), r \in Trees("Not", toks, k, j)} :
                     k \in (i + 1)..(j - 1)}
  ELSE Trees("And", toks, i, j)
         \cup UNION {IF toks[k].type = "OR"
                     THEN {[type |-> "OR", left |-> l, right |-> r] :
                             l \in Trees("Or", toks, i, k), r \in Trees("And", toks, k + 1, j)}
                     ELSE {} :
                     k \in (i + 1)..(j - 2)}

Text(s) == [type |-> "PLAIN_TEXT", value |-> s]
AndNode(l, r) == [type |-> "AND", left |-> l, right |-> r]
OrNode(l, r) == [type |-> "OR", left |-> l, right |-> r]
NotNode(x) == [type |-> "NOT", operand |-> x]

\* C25: the AST of every accepted token sequence is the tree of the grammar
\* in which OR binds loosest and chains to the left, adjacency binds next and
\* chains to the left, NOT takes the single following Not or Term, and a
\* parenthesized expression is one term; "a b OR -c d" yields
\* Or(And(a, b), And(Not(c), d)) and "a OR b OR c" yields Or(Or(a, b), c).
C25_ParsePrecedence ==
  (Searched /\ call.status = "ok")
    => LET toks == tokenize(trim(call.query))
       IN  /\ Trees("Or", toks, 1, Len(toks) + 1) = {parseQuery(call.query).node}
           /\ call.query = qMixed
                => parseQuery(call.query).node
                     = OrNode(AndNode(Text(<<"a">>), Text(<<"b">>)),
                              AndNode(NotNode(Text(<<"c">>)), Text(<<"d">>)))
           /\ call.query = qOrChain
                => parseQuery(call.query).node
                     = OrNode(OrNode(Text(<<"a">>), Text(<<"b">>)), Text(<<"c">>))

\* an accepted query with two ORs, or with OR, adjacency and NOT together
C25_Witness ==
  /\ Searched /\ call.status = "ok"
  /\ call.query \in {qMixed, qOrChain}

\* ------------------------------------------------------------------------
\* C26
\* ------------------------------------------------------------------------

ResplitFields == {<<"t">>, <<"C", "M", "C">>, <<"p", "o", "w">>}
ResplitOperators == {<<>>, <<"=">>, <<">", "=">>, <<"!">>}
\* empty, quoted empty, plain, quoted with a space and an escape, and values
\* that hold the pattern's own delimiters
ResplitValues ==
  {<<>>, <<"\"", "\"">>, <<"a">>, <<"\"", "a", " ", "\\", "\"", "b", "\"">>, <<":", "a">>,
   <<"=", "a">>, <<"a", ":", "b">>, <<"1">>}

\* "field op : value" and the colon-less "field op value"
ResplitQueries ==
  {f \o op \o <<":">> \o v : f \in ResplitFields, op \in ResplitOperators, v \in ResplitValues}
    \cup {f \o op \o v : f \in ResplitFields, op \in ResplitOperators \ {<<>>},
                          v \in {<<"a">>, <<"1">>, <<"t", "o", "u">>}}

NextResplit == respond \/ OracleSearch(ResplitQueries) \/ CollectionSearch(ResplitQueries)
SpecResplit == Init /\ [][NextResplit]_vars

\* the field name, operator and value the tokenizer's locals hold when it
\* pushes the FIELD token that starts at position i
Recognized(query, i) ==
  LET withColon == fieldMatchWithColon(query, i)
      noColon == fieldMatchNoColon(query, i)
  IN  IF withColon.matched
      THEN LET k == withColon.next
               r == IF k <= Len(query) /\ query[k] = "\""
                    THEN readQuoted(query, k + 1, <<>>)
                    ELSE readWord(query, k, <<>>)
           IN  [field |-> withColon.fieldName, operator |-> withColon.operator, value |-> r.value]
      ELSE [field |-> noColon.fieldName, operator |-> noColon.operator, value |-> noColon.value]

\* parseTerm's re-split of the token's text gives what the tokenizer recognized
Agree(query, token) ==
  LET match == fieldSyntaxMatch(token.value)
      seen == Recognized(query, token.start + 1)
  IN  /\ match.matched
      /\ toLowerCase(match.field) = seen.field
      /\ match.operator = seen.operator
      /\ match.value = seen.value

FieldTokens(query) ==
  LET toks == tokenize(trim(query))
  IN  {toks[i] : i \in {j \in 1..Len(toks) : toks[j].type = "FIELD"}}

\* C26: for every FIELD token the tokenizer emits, in colon or colon-less
\* form, quoted or not, of any length including the empty value, the
\* parser's re-split of the token's text succeeds and yields the field name,
\* operator and value the tokenizer recognized.
C26_ResplitAgrees ==
  Searched
    => /\ \A token \in FieldTokens(call.query) : Agree(trim(call.query), token)
       /\ call.error # "Invalid field syntax"

\* the same for the FIELD tokens whose recognized value is not empty
C26_ResplitAgrees_NonEmptyValue ==
  Searched
    => /\ \A token \in FieldTokens(call.query) :
            Recognized(trim(call.query), token.start + 1).value # <<>>
              => Agree(trim(call.query), token)
       /\ (call.error = "Invalid field syntax")
            => \E token \in FieldTokens(call.query) :
                 Recognized(trim(call.query), token.start + 1).value = <<>>

\* ------------------------------------------------------------------------
\* The tokenizer's loop, one turn at a time (search.ts 161-306)
\* ------------------------------------------------------------------------

\* queries with unclosed quotes, trailing escapes, quotes inside words,
\* operators without operands
OddTexts ==
  {<<"\"", "a", "\\">>, <<"\"", "a", "\\", "\"">>, <<"a", "\"", "b">>, <<"-", "-", "a">>,
   <<"o", "r", "x">>, <<"o", "r">>, <<"p", "o", "w", ">">>, <<"p", "o", "w", ">", "=", " ", "1">>,
   <<"t", ":", "\"", "a", " ", "b">>, <<"a", " ", " ", "b">>, <<"(", ")">>, <<":", "a">>,
   <<"a", "-", "b">>, <<"(", "-", "a", ")">>}

ScanQueries == OddTexts \cup LongTexts \cup ResplitQueries \cup ParseQueries

\* parseQuery calls tokenize(query.trim()) on a query that is not blank
tokenizeCall ==
  \E query \in ScanQueries :
    /\ scan.at = "idle"
    /\ trim(query) # <<>>
    /\ scan' = [at |-> "loop", query |-> trim(query), i |-> 1, tokens |-> <<>>, turns |-> 0]
    /\ UNCHANGED <<tableVars, running, serverVars>>

\* one turn of while (i < len); turns counts the turns taken
tokenizeTurn ==
  /\ scan.at = "loop"
  /\ scan.i <= Len(scan.query)
  /\ scan.turns <= Len(scan.query)
  /\ LET s == tokenizeStep(scan.query, scan.i, scan.tokens)
     IN  scan' = [scan EXCEPT !.i = s.i, !.tokens = s.tokens, !.turns = scan.turns + 1]
  /\ UNCHANGED <<tableVars, running, serverVars>>

\* the loop ends and tokenize returns its tokens, which parse receives
tokenizeReturn ==
  /\ scan.at = "loop"
  /\ scan.i > Len(scan.query)
  /\ scan' = [scan EXCEPT !.at = "parse"]
  /\ UNCHANGED <<tableVars, running, serverVars>>

\* parse returns or throws
parseReturn ==
  /\ scan.at = "parse"
  /\ scan' = NoScan
  /\ UNCHANGED <<tableVars, running, serverVars>>

NextScan == tokenizeCall \/ tokenizeTurn \/ tokenizeReturn \/ parseReturn

SpecScan == Init /\ [][NextScan]_vars

\* ------------------------------------------------------------------------
\* C27
\* ------------------------------------------------------------------------

ParserRules == {"parseOr", "parseAnd", "parseNot", "parseTerm"}

\* a call of a parser function at cursor index returns with the cursor
\* advanced, or throws, and the cursor stays within the tokens
Advances(rule, tokens, index) ==
  LET r == parseRule(rule, tokens, NoNode, index)
  IN  /\ r.index >= index
      /\ r.index <= Len(tokens)
      /\ r.ok => r.index > index

\* C27: every turn of the tokenizer's loop strictly increases the scan
\* position, which never passes the end of the query; on the tokens it
\* returns, every call of parseTerm (and of parseNot, parseAnd, parseOr), from
\* any cursor, consumes at least one token or throws, and the cursor never
\* decreases and never exceeds the token count: both loops end.
C27_ScanAndParseAdvance ==
  [][/\ (scan.at = "loop" /\ scan'.turns = scan.turns + 1)
          => (scan'.i > scan.i /\ scan'.i <= Len(scan.query) + 1
              /\ Len(scan'.tokens) <= Len(scan.tokens) + 1)
     /\ scan'.at = "parse"
          => \A rule \in ParserRules, index \in 0..Len(scan'.tokens) :
               Advances(rule, scan'.tokens, index)]_vars

\* a query of several tokens, with a quoted value, was scanned to its end in
\* fewer turns than it has characters
C27_Witness ==
  /\ scan.at = "parse"
  /\ Len(scan.tokens) >= 3
  /\ scan.turns < Len(scan.query)
  /\ \E i \in 1..Len(scan.tokens) : scan.tokens[i].type = "LPAREN"

\* ------------------------------------------------------------------------
\* C28
\* ------------------------------------------------------------------------

\* the texts a generated condition splices with sql.raw: each color token of
\* a "<=", ">=" or default color condition ("=" and "!=" bind a parameter),
\* and the format name of a legality condition
RECURSIVE RawTexts(_)
RawTexts(c) ==
  IF c.k \in {"and", "or"} THEN RawTexts(c.left) \cup RawTexts(c.right)
  ELSE IF c.k = "not" THEN RawTexts(c.operand)
  ELSE IF c.k \in {"json_subset", "json_superset", "json_any"}
  THEN {<<c.colorSet[i]>> : i \in 1..Len(c.colorSet)}
  ELSE IF c.k = "legality" THEN {c.format}
  ELSE {}

ColorTokens == {<<"W">>, <<"U">>, <<"B">>, <<"R">>, <<"G">>, <<"C">>, <<"M">>}

\* C28: every text spliced verbatim into a generated condition is an
\* allow-listed format name or one of the color tokens W, U, B, R, G, C, M,
\* for any colors, color-identity or format value of the query.
C28_RawFromVocabulary ==
  (Searched /\ call.condition # <<>>)
    => RawTexts(call.condition[1]) \subseteq (ColorTokens \cup Range(validFormats))

\* the value of the recorded call's field term
ValueOf(query) ==
  LET toks == tokenize(trim(query))
  IN  IF Len(toks) = 1 /\ toks[1].type = "FIELD"
      THEN fieldSyntaxMatch(toks[1].value).value ELSE <<>>

\* the same for color values spelled with the letters w, u, b, r, g, c, m
C28_RawFromVocabulary_ColorLetters ==
  (Searched /\ call.condition # <<>>
     /\ Range(toLowerCase(ValueOf(call.query))) \subseteq {"w", "u", "b", "r", "g", "c", "m"})
    => RawTexts(call.condition[1]) \subseteq (ColorTokens \cup Range(validFormats))

====
